---- MODULE Spec2Model ----
(***************************************************************************)
(* Frame lifecycle of gaclen: Device -> Frame -> PassInFrame -> Frame ->   *)
(* Device, the Swapchain it draws to, and the chain of GPU futures that    *)
(* orders the submitted work.                                              *)
(*                                                                         *)
(* Values that Rust moves (Device, Frame, PassInFrame) live in exactly one *)
(* of the caller's slots `device`, `frame`, `pif`; a consumed slot is      *)
(* empty.  Calls into vulkano are the environment: each call's outcome is  *)
(* an input of the action that makes the call.                             *)
(***************************************************************************)
EXTENDS Integers, Sequences, FiniteSets, TLC

\* ---------------------------------------------------------------- bounds
MaxFrames == 2      \* images acquired (frames begun) in one run
MaxCmds   == 3      \* commands recorded into one frame
MaxGen    == 2      \* swapchain generations created in one run
MaxRecord == 6      \* commands recorded into the one frame of SpecRecord
MaxAttachments == 4 \* attachments added to one GraphicalPassBuilder
MaxFamilies == 2    \* queue families of a physical device
MaxQueues == 2      \* queues of one queue family
MaxFormats == 4     \* formats a surface supports
UsizeBits == 16     \* width given to usize where an index is computed
MaxFrameCount == 4  \* frames an example's loop counts before the count saturates

\* ------------------------------------------------------- input alphabets
ImageIndices == {0, 1}     \* a swapchain of min_image_count = 2 images
DimSet     == {<<1, 1>>, <<2, 1>>}
Passes     == {"shadow", "albedo"}
AcquireCodes == {"OutOfDate", "SurfaceLost"}
ExecCodes    == {"AccessError"}
FlushCodes   == {"OutOfDate", "AccessError"}
ResizeCodes  == {"UnsupportedDimensions"}
ImageCodes   == {"AllocError"}
Formats      == {"B8G8R8A8Unorm", "D16Unorm"}

VARIABLES
    device,     \* the caller's Option<Device>
    frame,      \* the caller's Frame, when one exists
    pif,        \* the caller's PassInFrame, when one exists
    sc,         \* the Swapchain
    order,      \* GPU ordering edges <<before, after>> between events
    signaled,   \* frames whose fence the GPU has signaled
    fences,     \* frames whose fence has been queued
    frameNo,    \* images acquired so far
    recorders,  \* command recorders opened so far
    panicked,   \* the thread has panicked (unwrap on Err, index out of range)
    last,       \* the last API call and what it returned
    recov,      \* progress of the recovery from an out-of-date present
    lim,        \* how far this run goes: frames, commands per frame, generations
    pb,         \* the caller's GraphicalPassBuilder, when one exists
    pcall,      \* the last builder call and what it returned
    acquiring,  \* the Device inside a Frame::begin that waits for an image
    creation    \* what a Device or a Swapchain is created from, and what came of it

frameVars == <<device, frame, pif, sc, order, signaled, fences, frameNo, recorders, panicked, last, recov, lim, acquiring, creation>>
passVars == <<pb, pcall>>
vars == <<device, frame, pif, sc, order, signaled, fences, frameNo, recorders, panicked, last, recov, lim, pb, pcall, acquiring, creation>>

\* --------------------------------------------------------------- values
None      == [some |-> FALSE]
Some(x)   == [some |-> TRUE, val |-> x]
NoDevice  == [some |-> FALSE]
NoFrame   == [some |-> FALSE]
NoPass    == [some |-> FALSE]
NoError   == [kind |-> "None", code |-> "None"]
NoImage   == [gen |-> 0, index |-> 0, dims |-> <<0, 0>>]
NoSubmit  == [queued |-> FALSE, commands |-> <<>>]
NoPresent == [asked |-> FALSE, gen |-> 0, index |-> 0]

Event(k, n) == <<k, n>>

Viewport(dims, range) == [origin |-> <<0, 0>>, dimensions |-> dims, depth_range |-> range]

AcquireError(code) == [kind |-> "Acquire", code |-> code]
ResizeErrorSwapchain(code) == [kind |-> "Swapchain", code |-> code]
ResizeErrorImage_AsSwapchain(code) == [kind |-> "Swapchain", code |-> code]
ResizeErrorImage(code) == [kind |-> "Image", code |-> code]
ResizeErrorUnsizedWindow == [kind |-> "UnsizedWindow", code |-> "None"]

Flush_NoCode(code) == [kind |-> "Flush", code |-> "FlushError"]
Flush(code) == [kind |-> "Flush", code |-> code]
Commands(code) == [kind |-> "Commands", code |-> code]

NewDevice == [some |-> TRUE, device |-> "logical", graphics_queue |-> "q_graphics",
              transfer_queue |-> "q_transfer", compute_queue |-> "q_compute",
              before_frame |-> None]

\* How far a caller that skips the frame and retries has come since a resize
\* failed: "failed", then "resized" by a resize that returns Ok, "begun" by the
\* next begin that yields a Frame, "resumed" when that frame's finish returns
\* Ok.  Followed only in runs that track it.
ResizeOps == {"resize", "resize_for_window"}
RetryAfter(op, ret) ==
    IF ~lim.track THEN "idle"
    ELSE IF op \in ResizeOps /\ ret = "Err" THEN "failed"
    ELSE IF op \in ResizeOps /\ ret = "Ok" /\ last.retry = "failed" THEN "resized"
    ELSE IF op = "begin" /\ ret = "Ok" /\ last.retry = "resized" THEN "begun"
    ELSE IF op = "finish" /\ ret = "Ok" /\ last.retry = "begun" THEN "resumed"
    ELSE IF op \in {"finish", "drop"} /\ last.retry = "begun" THEN "resized"
    ELSE last.retry

Call(op, ret, err, fault) ==
    [op |-> op, ret |-> ret, err |-> err, fault |-> fault,
     code |-> "None", hadPending |-> FALSE, pruned |-> FALSE, n |-> 0,
     cb |-> NoSubmit, present |-> NoPresent, dims |-> <<0, 0>>,
     retry |-> RetryAfter(op, ret)]

\* ------------------------------------------------- GraphicalPassBuilder
NoBuilder == [some |-> FALSE]

\* vulkano's Rasterization::default() and DepthStencil::default(), as far as
\* the builder's setters reach into them.
CullModes == {"None", "Front", "Back", "FrontAndBack"}
FrontFaces == {"CounterClockwise", "Clockwise"}
Compares == {"Always", "Less", "Greater"}
Topologies == {"TriangleList", "TriangleStrip", "LineList"}
RasterizationDefault == [cull_mode |-> "None", front_face |-> "CounterClockwise"]
DepthStencilDefault == [depth_write |-> FALSE, depth_compare |-> "Always"]

\* GraphicalPassBuilder<(), (), (), (), ()>: the unit type in the place of
\* the vertex input and of either shader is None.
NewBuilder ==
    [some |-> TRUE,
     vertex_input |-> None,
     vertex_shader |-> None,
     primitive_topology |-> "TriangleList",
     rasterization |-> RasterizationDefault,
     fragment_shader |-> None,
     depth_stencil |-> DepthStencilDefault,
     samples |-> 1,
     attachments |-> <<>>,
     depth_attachment |-> None]

\* A vertex input type is the number of its fields, a vertex shader the
\* number of inputs it declares, a fragment shader its entry point.
VertexInputs == {2, 3}
VertexShaders == {3}
FragmentShaders == {"main"}

is_depth(format) == format = "D16Unorm"

ColorAttachment(format) == [format |-> format, initial_layout |-> "ColorAttachmentOptimal"]
DepthAttachment_ColorLayout(format) ==
    [format |-> format, initial_layout |-> "ColorAttachmentOptimal"]
DepthAttachment(format) == [format |-> format, initial_layout |-> "DepthStencilAttachmentOptimal"]

NoAttachmentError == [kind |-> "None", index |-> 0]
InvalidFormat == [kind |-> "InvalidFormat", index |-> 0]
DepthAttachmentAlreadyExists(index) == [kind |-> "DepthAttachmentAlreadyExists", index |-> index]
BuildError(kind) == [kind |-> kind, index |-> 0]

\* The index reported for the depth attachment a builder already has.
ExistingDepthIndex_Last(b) == Len(b.attachments) - 1
ExistingDepthIndex(b) == b.depth_attachment.val

\* What add_depth_attachment refuses: the format is looked at first, the
\* depth attachment the builder may already have second.
AddDepthError_DuplicateFirst(b, format) ==
    IF b.depth_attachment.some THEN DepthAttachmentAlreadyExists(ExistingDepthIndex(b))
    ELSE IF is_depth(format) THEN NoAttachmentError
    ELSE InvalidFormat
AddDepthError(b, format) ==
    IF is_depth(format)
    THEN IF b.depth_attachment.some
         THEN DepthAttachmentAlreadyExists(ExistingDepthIndex(b))
         ELSE NoAttachmentError
    ELSE InvalidFormat

\* -------------------------------------- GraphicalRenderPassDescription
GraphicalRenderPassDescription(attachments, depth_attachment) ==
    [attachments |-> attachments, depth_attachment |-> depth_attachment]
NoDescription == GraphicalRenderPassDescription(<<>>, None)
ATTACHMENT_COUNT(d) == Len(d.attachments)

\* for i in a..b { push((i, layout)) }
PushRange(a, b, layout) ==
    IF b > a THEN [j \in 1 .. (b - a) |-> <<a + j - 1, layout>>] ELSE <<>>

subpass_desc_NoGap(d, num) ==
    IF num = 0
    THEN Some([color_attachments |-> PushRange(0, ATTACHMENT_COUNT(d), "ColorAttachmentOptimal"),
               depth_stencil |-> IF d.depth_attachment.some
                                 THEN Some(<<d.depth_attachment.val, "DepthStencilAttachmentOptimal">>)
                                 ELSE None])
    ELSE None
subpass_desc(d, num) ==
    IF num = 0
    THEN Some([color_attachments |->
                   IF d.depth_attachment.some
                   THEN LET depth_index == d.depth_attachment.val
                        IN PushRange(0, depth_index, "ColorAttachmentOptimal")
                             \o PushRange(depth_index + 1, ATTACHMENT_COUNT(d),
                                          "ColorAttachmentOptimal")
                   ELSE PushRange(0, ATTACHMENT_COUNT(d), "ColorAttachmentOptimal"),
               depth_stencil |->
                   IF d.depth_attachment.some
                   THEN Some(<<d.depth_attachment.val, "DepthStencilAttachmentOptimal">>)
                   ELSE None])
    ELSE None

NoPipeline ==
    [vertex_input |-> None, vertex_shader |-> None, fragment_shader |-> None,
     primitive_topology |-> "TriangleList", depth_stencil |-> DepthStencilDefault,
     rasterization |-> RasterizationDefault]
PassCall(op, ret, err) ==
    [op |-> op, ret |-> ret, err |-> err, format |-> "none",
     on |-> <<>>, desc |-> NoDescription, subpass |-> None,
     attempted |-> <<>>, pipeline |-> NoPipeline, arg |-> "none"]

\* The setters of the builder, as functions of the builder they take.
primitive_topology(b, topology) == [b EXCEPT !.primitive_topology = topology]
cull_mode(b, mode) == [b EXCEPT !.rasterization.cull_mode = mode]
front_face(b, face) == [b EXCEPT !.rasterization.front_face = face]
depth_write(b, write) == [b EXCEPT !.depth_stencil.depth_write = write]
depth_test_op_ResetsWrite(b, operation) ==
    [b EXCEPT !.depth_stencil = [DepthStencilDefault EXCEPT !.depth_compare = operation]]
depth_test_op(b, operation) == [b EXCEPT !.depth_stencil.depth_compare = operation]
depth_test_less(b) == depth_test_op(b, "Less")
depth_test_greater(b) == depth_test_op(b, "Greater")
basic_depth_test(b) == depth_test_less(depth_write(b, TRUE))
inverse_depth_test(b) == depth_test_greater(depth_write(b, TRUE))

\* The setters that change the builder's type build a new builder out of the
\* one they take, field by field.
vertex_input(b, input) ==
    [some |-> TRUE,
     vertex_input |-> Some(input),
     vertex_shader |-> b.vertex_shader,
     primitive_topology |-> b.primitive_topology,
     rasterization |-> b.rasterization,
     fragment_shader |-> b.fragment_shader,
     depth_stencil |-> b.depth_stencil,
     samples |-> b.samples,
     attachments |-> b.attachments,
     depth_attachment |-> b.depth_attachment]
vertex_shader_Fresh(b, shader) ==
    [NewBuilder EXCEPT !.vertex_input = b.vertex_input,
                       !.vertex_shader = Some(shader),
                       !.fragment_shader = b.fragment_shader,
                       !.attachments = b.attachments,
                       !.depth_attachment = b.depth_attachment]
vertex_shader(b, shader) ==
    [some |-> TRUE,
     vertex_input |-> b.vertex_input,
     vertex_shader |-> Some(shader),
     primitive_topology |-> b.primitive_topology,
     rasterization |-> b.rasterization,
     fragment_shader |-> b.fragment_shader,
     depth_stencil |-> b.depth_stencil,
     samples |-> b.samples,
     attachments |-> b.attachments,
     depth_attachment |-> b.depth_attachment]
fragment_shader(b, shader) ==
    [some |-> TRUE,
     vertex_input |-> b.vertex_input,
     vertex_shader |-> b.vertex_shader,
     primitive_topology |-> b.primitive_topology,
     rasterization |-> b.rasterization,
     fragment_shader |-> Some(shader),
     depth_stencil |-> b.depth_stencil,
     samples |-> b.samples,
     attachments |-> b.attachments,
     depth_attachment |-> b.depth_attachment]

BoolName(x) == IF x THEN "true" ELSE "false"

\* The where clauses of the impl block that holds build: the vertex shader
\* and the fragment shader are entry points and the vertex input is a
\* VertexDefinition for the vertex shader's inputs; the unit type is none.
BuildCallable(b) ==
    b.some /\ b.vertex_input.some /\ b.vertex_shader.some /\ b.fragment_shader.some

num_subpasses_None(d) == 0
num_subpasses(d) == 1

\* Subpass::from(render_pass, id)
SubpassFrom(d, id) == IF id < num_subpasses(d) THEN Some(id) ELSE None

\* description.build_render_pass(device)
RenderPassOutcomes == {"Ok", "RenderPassCreation"}

\* GraphicsPipelineBuilder::build asks the vertex input for its definition
\* against the vertex shader's inputs; a shader input without a field is an
\* IncompatibleVertexDefinition error.
PipelineStart(b) ==
    [vertex_input |-> b.vertex_input, vertex_shader |-> b.vertex_shader,
     fragment_shader |-> b.fragment_shader,
     primitive_topology |-> b.primitive_topology, depth_stencil |-> b.depth_stencil,
     rasterization |-> b.rasterization]
VertexDefinitionFits(p) == p.vertex_input.val >= p.vertex_shader.val
PipelineOutcomes_Truncating(p) == {"Ok", "GraphicsPipelineCreation"}
PipelineOutcomes(p) ==
    IF VertexDefinitionFits(p) THEN {"Ok", "GraphicsPipelineCreation"}
    ELSE {"GraphicsPipelineCreation"}

\* ------------------------------------------------------------ swapchain
SwapchainHandle(gen, dims, count) == [gen |-> gen, dims |-> dims, count |-> count]
ImageArray(gen, dims, count) == [gen |-> gen, dims |-> dims, count |-> count]

DepthRange(inverse) == IF inverse THEN <<1, 0>> ELSE <<0, 1>>

resize_viewport(s, dims) ==
    LET vp == Viewport(dims, DepthRange(s.inverse_depth))
        old == s.dynamic_state.viewports
    IN [s EXCEPT !.default_viewport = vp,
                 !.dynamic_state = [viewports |->
                     IF ~old.some THEN Some(<<vp>>)
                     ELSE IF Len(old.val) = 0 THEN Some(Append(old.val, vp))
                     ELSE Some([old.val EXCEPT ![1] = vp])]]

SwapchainNew(dims, count, depth_format) ==
    resize_viewport(
        [swapchain |-> SwapchainHandle(1, dims, count),
         images |-> ImageArray(1, dims, count),
         depths |-> ImageArray(1, dims, count),
         depth_format |-> depth_format,
         inverse_depth |-> FALSE,
         dynamic_state |-> [viewports |-> None],
         default_viewport |-> Viewport(<<0, 0>>, <<0, 1>>)],
        dims)

\* Depth images created by resize, one per swapchain image, at the new size.
ResizeDepths_OldDimensions(s, gen, dims, count) == ImageArray(gen, s.depths.dims, count)
ResizeDepths(s, gen, dims, count) == ImageArray(gen, dims, count)

\* ----------------------- Swapchain::get_color_image_for / get_depth_image_for
\* Indexing an array out of range panics.
ImageAt(arr, i) ==
    IF i < arr.count THEN [gen |-> arr.gen, index |-> i, dims |-> arr.dims]
    ELSE [gen |-> -1, index |-> i, dims |-> <<0, 0>>]
IsImage(img) == img.gen > 0

get_color_image_for(s, f) == ImageAt(s.images, f.swapchain_index)
get_depth_image_for(s, f) == ImageAt(s.depths, f.swapchain_index)

\* ---------------------------------------------------------- GPU futures
\* A future is the set of events its completion waits for.
Now == {}
Join(a, b) == a \cup b
CleanupFinished(f, done) == {e \in f : e[2] \notin done}

FrameBeginTime_DropPrior(before_frame, acquire, done) == Join(Now, {acquire})
FrameBeginTime_NoCleanup(before_frame, acquire, done) ==
    IF before_frame.some THEN Join(before_frame.val, {acquire})
    ELSE Join(Now, {acquire})
FrameBeginTime(before_frame, acquire, done) ==
    IF before_frame.some
    THEN Join(CleanupFinished(before_frame.val, done), {acquire})
    ELSE Join(Now, {acquire})


\* Ordering edges added when a frame's work is queued: the command buffer
\* after everything in the accumulated future, the present after the
\* command buffer, the fence after the present.
SubmitEdges(time, n) == {<<e, Event("submit", n)>> : e \in time}
FinishEdges_PresentFirst(time, n) ==
    {<<e, Event("present", n)>> : e \in time}
        \cup {<<Event("present", n), Event("submit", n)>>,
              <<Event("submit", n), Event("fence", n)>>}
FinishEdges(time, n) ==
    SubmitEdges(time, n)
        \cup {<<Event("submit", n), Event("present", n)>>,
              <<Event("present", n), Event("fence", n)>>}
AfterFrame(time, n) ==
    time \cup {Event("submit", n), Event("present", n), Event("fence", n)}

\* ------------------------------------------------- moves between slots
\* Frame::begin takes the Device by value: the caller's slot is left empty.
BeginCallerSlot_Copy(dev) == dev
BeginCallerSlot(dev) == NoDevice

\* Device handed back when image acquisition fails.
BeginErrDevice_Dropped(dev) == NoDevice
BeginErrDevice_Taken(dev) == [dev EXCEPT !.before_frame = None]
BeginErrDevice(dev) == dev

\* Device wrapped by the new Frame: its pending future has been taken.
BeginFrameDevice_KeepSlot(dev) == dev
BeginFrameDevice(dev) == [dev EXCEPT !.before_frame = None]

\* Device handed back by a failed finish.
FinishErrDevice_Dropped(f) == NoDevice
FinishErrDevice(f) == f.device

\* Device handed back by a successful finish.
FinishOkDevice(f, after_frame) == [f.device EXCEPT !.before_frame = Some(after_frame)]

\* ---------------------------------------------------- command recorder
CmdBegin(fb, clears) == [op |-> "BeginRenderPass", pass |-> "none", fb |-> fb,
                         clears |-> clears, viewport |-> None]
CmdDraw(kind, pass, ds) == [op |-> kind, pass |-> pass, fb |-> NoImage,
                            clears |-> <<>>, viewport |-> ds.viewports]
CmdEnd == [op |-> "EndRenderPass", pass |-> "none", fb |-> NoImage,
           clears |-> <<>>, viewport |-> None]

\* The dynamic state a draw is recorded with: the Frame's own.
DrawDynamicState_Swapchain(p) == sc.dynamic_state
DrawDynamicState(p) == p.frame.dynamic_state

RecordEnd_Missing(cmds) == cmds
RecordEnd(cmds) == Append(cmds, CmdEnd)

\* ------------------------------------------------ outcomes of vulkano
Outcome(ok, code) == [ok |-> ok, code |-> code, index |-> 0]
OkOutcome == Outcome(TRUE, "None")

AcquireOutcomes(h) ==
    {[ok |-> TRUE, code |-> "None", index |-> i] : i \in {x \in ImageIndices : x < h.count}}
        \cup {Outcome(FALSE, c) : c \in AcquireCodes}
RecorderOutcomes == {OkOutcome, Outcome(FALSE, "OomError")}
ExecOutcomes == {OkOutcome} \cup {Outcome(FALSE, c) : c \in ExecCodes}
FlushOutcomes(h) ==
    {OkOutcome}
        \cup {Outcome(FALSE, c) : c \in FlushCodes}

\* ------------------------------------------------------------ recovery
RecovAfterFinish(ret, err) ==
    IF ret = "Err" /\ err = Flush("OutOfDate") THEN "outOfDate"
    ELSE IF ret = "Ok" /\ recov = "begun" THEN "done"
    ELSE "idle"

\* ----------------------------------------------------------------- Init
Limits(frames, cmds, gens) ==
    [frames |-> frames, cmds |-> cmds, gens |-> gens, track |-> FALSE]
Tracking(limits) == [limits EXCEPT !.track = TRUE]

NoCreation == [op |-> "none"]

StartFrom(limits, created) ==
    /\ creation = created
    /\ device = NewDevice
    /\ frame = NoFrame
    /\ pif = NoPass
    /\ sc = SwapchainNew(<<1, 1>>, Cardinality(ImageIndices), "D16Unorm")
    /\ order = {}
    /\ signaled = {}
    /\ fences = {}
    /\ frameNo = 0
    /\ recorders = 0
    /\ panicked = FALSE
    /\ last = [op |-> "new", ret |-> "Ok", err |-> NoError, fault |-> "none",
               code |-> "None", hadPending |-> FALSE, pruned |-> FALSE, n |-> 0,
               cb |-> NoSubmit, present |-> NoPresent, dims |-> <<0, 0>>,
               retry |-> "idle"]
    /\ recov = "idle"
    /\ lim = limits
    /\ pb = NoBuilder
    /\ pcall = PassCall("none", "Ok", NoAttachmentError)
    /\ acquiring = NoDevice

Start(limits) == StartFrom(limits, NoCreation)

Init == Start(Limits(MaxFrames, MaxCmds, MaxGen))

\* One frame on one swapchain generation, with room for two full passes.
InitRecord == Start(Limits(1, MaxRecord, 1))

\* Runs that follow the retries after a failed resize: room for a resize that
\* fails after recreating the images and one that succeeds after it.
InitRetry == Start(Tracking(Limits(1, MaxCmds, MaxGen + 1)))

Panic(op, fault) ==
    /\ panicked' = TRUE
    /\ device' = NoDevice
    /\ frame' = NoFrame
    /\ pif' = NoPass
    /\ last' = Call(op, "Panic", NoError, fault)
    /\ recov' = "idle"

\* ------------------------------------------------------- Frame::begin
\* What begin does with the Device `dev` once acquire_next_image has returned
\* `acq`; `rec` is the outcome of opening the command recorder.
Begin(dev, acq, rec) ==
    IF ~acq.ok
    THEN /\ device' = BeginErrDevice(dev)
         /\ last' = [Call("begin", "Err", AcquireError(acq.code), "acquire")
                        EXCEPT !.code = acq.code]
         /\ UNCHANGED <<frame, pif, sc, order, signaled, fences, frameNo, recorders, panicked, recov>>
    ELSE LET n == frameNo + 1
             time == FrameBeginTime(dev.before_frame, Event("acquire", n), signaled)
         IN /\ frameNo' = n
            /\ IF ~rec.ok
               THEN /\ Panic("begin", "recorder")
                    /\ UNCHANGED <<sc, order, signaled, fences, recorders>>
               ELSE /\ frame' = [some |-> TRUE,
                                 device |-> BeginFrameDevice(dev),
                                 swapchain |-> sc.swapchain,
                                 dynamic_state |-> sc.dynamic_state,
                                 time |-> time,
                                 commands |-> <<>>,
                                 swapchain_index |-> acq.index,
                                 n |-> n]
                    /\ device' = BeginCallerSlot(dev)
                    /\ recorders' = recorders + 1
                    /\ last' = [Call("begin", "Ok", NoError, "none") EXCEPT
                                   !.hadPending = dev.before_frame.some,
                                   !.pruned = dev.before_frame.some /\
                                       time # Join(dev.before_frame.val,
                                                   {Event("acquire", n)}),
                                   !.n = n]
                    /\ recov' = IF recov = "resized" THEN "begun" ELSE "idle"
                    /\ UNCHANGED <<pif, sc, order, signaled, fences, panicked>>

\* Frame::begin as one step, taken when its wait for an image is over.
FrameBegin ==
    /\ ~panicked
    /\ ~acquiring.some
    /\ UNCHANGED <<creation, lim, passVars, acquiring>>
    /\ device.some
    /\ frameNo < lim.frames
    /\ \E acq \in AcquireOutcomes(sc.swapchain), rec \in RecorderOutcomes :
          Begin(device, acq, rec)

\* ---------------------------- Frame::begin, the wait for an image apart
\* The timeout begin gives to acquire_next_image: none.
AcquireTimeout == None

\* Frame n still holds the image it acquired: the image goes back to the
\* presentation engine only by a present, which only a finish that returns
\* Ok has queued, and is free again once that work is done.  (Counted over
\* one swapchain generation.)
ImageHeld(n) == ~(n \in fences /\ n \in signaled)
FreeImages(h) == h.count - Cardinality({n \in 1 .. frameNo : ImageHeld(n)})

\* begin is called: the Device moves into the call, which waits in
\* acquire_next_image.
FrameBeginCall ==
    /\ ~panicked
    /\ device.some /\ ~acquiring.some
    /\ frameNo < lim.frames
    /\ acquiring' = device
    /\ device' = NoDevice
    /\ last' = Call("begin", "Waiting", NoError, "none")
    /\ UNCHANGED <<frame, pif, sc, order, signaled, fences, frameNo, recorders,
                   panicked, recov, lim, passVars, creation>>

\* The wait ends: with an image as soon as one is free, with Timeout when a
\* timeout was given and has passed.
FrameBeginReturn ==
    /\ ~panicked
    /\ acquiring.some
    /\ \E acq \in {o \in AcquireOutcomes(sc.swapchain) : o.ok}
                    \cup {Outcome(FALSE, "Timeout")},
          rec \in RecorderOutcomes :
          /\ acq.ok => FreeImages(sc.swapchain) > 0
          /\ ~acq.ok => (AcquireTimeout.some /\ FreeImages(sc.swapchain) = 0)
          /\ Begin(acquiring, acq, rec)
    /\ acquiring' = NoDevice
    /\ UNCHANGED <<creation, lim, passVars>>

\* The wait ends with an error of the surface; nothing makes one happen.
FrameBeginFailed ==
    /\ ~panicked
    /\ acquiring.some
    /\ \E acq \in {o \in AcquireOutcomes(sc.swapchain) : ~o.ok}, rec \in RecorderOutcomes :
          Begin(acquiring, acq, rec)
    /\ acquiring' = NoDevice
    /\ UNCHANGED <<creation, lim, passVars>>

\* -------------------------------------------------- Frame::begin_pass
\* The viewport the caller gives to begin_pass: the shadow pass renders to
\* its own square texture, the albedo pass to the swapchain.
PassViewport(pass) ==
    IF pass = "shadow" THEN Viewport(<<4, 4>>, <<0, 1>>) ELSE sc.default_viewport

\* The clear values the caller gives to begin_pass, one per attachment of the
\* pass: depth for the shadow pass, color and depth for the albedo pass.
PassClears(pass) ==
    IF pass = "shadow" THEN <<"depth 1.0">> ELSE <<"color", "depth 1.0">>

FrameBeginPass ==
    /\ ~panicked
    /\ ~acquiring.some
    /\ UNCHANGED <<creation, lim, passVars, acquiring>>
    /\ frame.some
    /\ Len(frame.commands) + 2 <= lim.cmds
    /\ \E pass \in Passes, out \in RecorderOutcomes,
          fb \in {get_color_image_for(sc, frame)} :
          LET viewport == PassViewport(pass)
              clears == PassClears(pass)
          IN
          IF ~out.ok
          THEN /\ Panic("begin_pass", "begin_render_pass")
               /\ UNCHANGED <<sc, order, signaled, fences,
                              frameNo, recorders>>
          ELSE /\ pif' = [some |-> TRUE,
                          frame |-> [frame EXCEPT
                              !.commands = Append(@, CmdBegin(fb, clears)),
                              !.dynamic_state = [viewports |-> Some(<<viewport>>)]],
                          pass |-> pass]
               /\ frame' = NoFrame
               /\ last' = Call("begin_pass", "Ok", NoError, "none")
               /\ UNCHANGED <<device, sc, order, signaled, fences, frameNo, recorders, panicked, recov>>

\* ------------------------------- PassInFrame::draw / draw_indexed
Record(op, kind) ==
    /\ ~panicked
    /\ ~acquiring.some
    /\ UNCHANGED <<creation, lim, passVars, acquiring>>
    /\ pif.some
    /\ Len(pif.frame.commands) + 2 <= lim.cmds
    /\ \E out \in RecorderOutcomes :
          IF ~out.ok
          THEN /\ Panic(op, "draw")
               /\ UNCHANGED <<sc, order, signaled, fences,
                              frameNo, recorders>>
          ELSE /\ pif' = [pif EXCEPT !.frame.commands =
                              Append(@, CmdDraw(kind, pif.pass, DrawDynamicState(pif)))]
               /\ last' = Call(op, "Ok", NoError, "none")
               /\ UNCHANGED <<device, frame, sc, order, signaled, fences, frameNo, recorders, panicked, recov>>

PassDraw == Record("draw", "Draw")
PassDrawIndexed == Record("draw_indexed", "DrawIndexed")

\* -------------------------------------------- PassInFrame::finish_pass
\* finish_pass takes any PassInFrame, whatever has been recorded in it.
FinishPassPermitted_NeedsDraw(p) ==
    p.some /\ p.frame.commands[Len(p.frame.commands)].op \in {"Draw", "DrawIndexed"}
FinishPassPermitted(p) == p.some

\* Frame { commands, .. self.frame }
FinishPassFrame_FreshTime(p, commands) ==
    [p.frame EXCEPT !.commands = commands, !.time = Now]
FinishPassFrame(p, commands) == [p.frame EXCEPT !.commands = commands]

PassFinishPass ==
    /\ ~panicked
    /\ ~acquiring.some
    /\ UNCHANGED <<creation, lim, passVars, acquiring>>
    /\ FinishPassPermitted(pif)
    /\ \E out \in RecorderOutcomes :
          IF ~out.ok
          THEN /\ Panic("finish_pass", "end_render_pass")
               /\ UNCHANGED <<sc, order, signaled, fences,
                              frameNo, recorders>>
          ELSE /\ frame' = FinishPassFrame(pif, RecordEnd(pif.frame.commands))
               /\ pif' = NoPass
               /\ last' = Call("finish_pass", "Ok", NoError, "none")
               /\ UNCHANGED <<device, sc, order, signaled, fences, frameNo, recorders, panicked, recov>>


\* then_swapchain_present(queue, self.swapchain, self.swapchain_index): the
\* handle and the index are the frame's own, whatever the Swapchain holds by now.
PresentRequest_Current(f, s) ==
    [asked |-> TRUE, gen |-> s.swapchain.gen, index |-> f.swapchain_index]
PresentRequest(f, s) ==
    [asked |-> TRUE, gen |-> f.swapchain.gen, index |-> f.swapchain_index]

\* ------------------------------------------------------ Frame::finish
FrameFinish ==
    /\ ~panicked
    /\ ~acquiring.some
    /\ UNCHANGED <<creation, lim, passVars, acquiring>>
    /\ frame.some
    /\ \E build \in RecorderOutcomes, exec \in ExecOutcomes,
          flush \in FlushOutcomes(frame.swapchain) :
          LET n == frame.n
              req == PresentRequest(frame, sc)
              cb == [queued |-> TRUE, commands |-> frame.commands]
          IN
          IF ~build.ok
          THEN /\ Panic("finish", "build")
               /\ UNCHANGED <<sc, order, signaled, fences,
                              frameNo, recorders>>
          ELSE IF ~exec.ok
          THEN /\ device' = FinishErrDevice(frame)
               /\ frame' = NoFrame
               /\ last' = [Call("finish", "Err", Commands(exec.code), "execute")
                              EXCEPT !.code = exec.code, !.n = n]
               /\ recov' = RecovAfterFinish("Err", Commands(exec.code))
               /\ UNCHANGED <<pif, sc, order, signaled, fences,
                              frameNo, recorders, panicked>>
          ELSE IF ~flush.ok
          THEN /\ device' = FinishErrDevice(frame)
               /\ frame' = NoFrame
               /\ last' = [Call("finish", "Err", Flush(flush.code), "flush") EXCEPT
                              !.code = flush.code, !.n = n, !.present = req]
               /\ recov' = RecovAfterFinish("Err", Flush(flush.code))
               /\ UNCHANGED <<pif, sc, order, signaled, fences, frameNo, recorders, panicked>>
          ELSE /\ device' = FinishOkDevice(frame, AfterFrame(frame.time, n))
               /\ frame' = NoFrame
               /\ order' = order \cup FinishEdges(frame.time, n)
               /\ fences' = fences \cup {n}
               /\ last' = [Call("finish", "Ok", NoError, "none") EXCEPT
                              !.n = n, !.present = req, !.cb = cb]
               /\ recov' = RecovAfterFinish("Ok", NoError)
               /\ UNCHANGED <<pif, sc, signaled, frameNo, recorders, panicked>>

\* --------------------------------------------------- Swapchain::resize
\* The viewport is resized first; the swapchain and its images are replaced
\* as soon as they are recreated; the depth images are replaced last.
Resize(op, dims, out) ==
    LET gen == sc.swapchain.gen + 1
        count == sc.swapchain.count
        viewed == resize_viewport(sc, dims)
        recreated == [viewed EXCEPT
                         !.swapchain = SwapchainHandle(gen, dims, count),
                         !.images = ImageArray(gen, dims, count)]
    IN
    /\ out # "Swapchain" => gen <= lim.gens
    /\ IF out = "Swapchain"
       THEN /\ sc' = viewed
            /\ \E c \in ResizeCodes :
                  last' = [Call(op, "Err", ResizeErrorSwapchain(c), "recreate")
                              EXCEPT !.code = c, !.dims = dims]
            /\ recov' = recov
       ELSE IF out = "Image"
       THEN /\ sc' = recreated
            /\ \E c \in ImageCodes :
                  last' = [Call(op, "Err", ResizeErrorImage(c), "image")
                              EXCEPT !.code = c, !.dims = dims]
            /\ recov' = recov
       ELSE /\ sc' = [recreated EXCEPT !.depths = ResizeDepths(sc, gen, dims, count)]
            /\ last' = [Call(op, "Ok", NoError, "none") EXCEPT !.dims = dims]
            /\ recov' = IF recov = "outOfDate" THEN "resized" ELSE recov
    /\ UNCHANGED <<device, frame, pif, order, signaled, fences, frameNo, recorders, panicked>>

SwapchainResize ==
    /\ ~panicked
    /\ ~acquiring.some
    /\ UNCHANGED <<creation, lim, passVars, acquiring>>
    /\ \E dims \in DimSet, out \in {"Ok", "Swapchain", "Image"} :
          Resize("resize", dims, out)

\* ------------------------------------------- Device::resize_for_window
\* Needs the Device (&mut self); a window without a size is refused before
\* anything is touched, otherwise the steps are those of Swapchain::resize.
DeviceResizeForWindow ==
    /\ ~panicked
    /\ ~acquiring.some
    /\ UNCHANGED <<creation, lim, passVars, acquiring>>
    /\ device.some
    /\ \E size \in {None} \cup {Some(d) : d \in DimSet},
          out \in {"Ok", "Swapchain", "Image"} :
          IF ~size.some
          THEN /\ out = "Ok"
               /\ last' = Call("resize_for_window", "Err", ResizeErrorUnsizedWindow, "unsized")
               /\ UNCHANGED <<device, frame, pif, sc, order, signaled, fences,
                              frameNo, recorders, panicked, recov>>
          ELSE Resize("resize_for_window", size.val, out)

\* ------------------------------------------ dropping a Frame / PassInFrame
\* The Frame owns the Device it was begun from: dropping the Frame (or the
\* PassInFrame that owns the Frame) drops that Device with it, recorder,
\* future and acquired index included; nothing is handed back.
DropCallerSlot_Returned(f, p) == IF f.some THEN f.device ELSE p.frame.device
DropCallerSlot(f, p) == NoDevice

DropFrame ==
    /\ ~panicked
    /\ ~acquiring.some
    /\ UNCHANGED <<creation, lim, passVars, acquiring>>
    /\ frame.some \/ pif.some
    /\ device' = DropCallerSlot(frame, pif)
    /\ frame' = NoFrame
    /\ pif' = NoPass
    /\ last' = [Call("drop", "Ok", NoError, "none") EXCEPT !.n = frameNo]
    /\ recov' = "idle"
    /\ UNCHANGED <<sc, order, signaled, fences,
                   frameNo, recorders, panicked>>

\* ------------------------------------------------------- environment
\* The GPU signals the fence of a queued frame once every frame it was
\* ordered after has been signaled.
FenceQueued(n) == n \in fences
Predecessors(n) == {e[1][2] : e \in {x \in order : x[2] = Event("submit", n)}} \ {n}

GpuSignalFence ==
    /\ \E n \in 1 .. frameNo :
          /\ FenceQueued(n)
          /\ n \notin signaled
          /\ \A m \in Predecessors(n) : m \in signaled \/ ~FenceQueued(m)
          /\ signaled' = signaled \cup {n}
    /\ UNCHANGED <<device, frame, pif, sc, order, fences,
                   frameNo, recorders, panicked, last, recov, lim, passVars, acquiring,
                   creation>>

\* ------------------------------------------------ GraphicalPass::start
PassStart ==
    /\ ~pb.some
    /\ pcall.op = "none"
    /\ pb' = NewBuilder
    /\ pcall' = PassCall("start", "Ok", NoAttachmentError)
    /\ UNCHANGED frameVars

\* ------------------------- GraphicalPassBuilder::add_image_attachment
PassAddImageAttachment ==
    /\ pb.some
    /\ Len(pb.attachments) < MaxAttachments
    /\ \E format \in Formats :
          /\ pb' = [pb EXCEPT !.attachments = Append(@, ColorAttachment(format))]
          /\ pcall' = [PassCall("add_image_attachment", "Ok", NoAttachmentError)
                          EXCEPT !.format = format]
    /\ UNCHANGED frameVars

\* ------------------------- GraphicalPassBuilder::add_depth_attachment
\* Takes the builder by value: on Err the builder is not handed back.
PassAddDepthAttachment ==
    /\ pb.some
    /\ Len(pb.attachments) < MaxAttachments
    /\ \E format \in Formats :
          LET err == AddDepthError(pb, format) IN
          IF err = NoAttachmentError
          THEN /\ pb' = [pb EXCEPT
                            !.depth_attachment = Some(Len(pb.attachments)),
                            !.attachments = Append(@, DepthAttachment(format))]
               /\ pcall' = [PassCall("add_depth_attachment", "Ok", NoAttachmentError)
                               EXCEPT !.format = format, !.on = pb.attachments]
          ELSE /\ pb' = NoBuilder
               /\ pcall' = [PassCall("add_depth_attachment", "Err", err)
                               EXCEPT !.format = format, !.on = pb.attachments]
    /\ UNCHANGED frameVars

\* ------------------------------ GraphicalPassBuilder: configuration
Configure(op, arg, b) ==
    /\ pb.some
    /\ pb' = b
    /\ pcall' = [PassCall(op, "Ok", NoAttachmentError) EXCEPT !.arg = arg]
    /\ UNCHANGED frameVars

PassPrimitiveTopology ==
    \E topology \in Topologies :
       Configure("primitive_topology", topology, primitive_topology(pb, topology))
PassCullMode ==
    \E mode \in CullModes : Configure("cull_mode", mode, cull_mode(pb, mode))
PassFrontFace ==
    \E face \in FrontFaces : Configure("front_face", face, front_face(pb, face))
PassDepthWrite ==
    \E write \in BOOLEAN : Configure("depth_write", BoolName(write), depth_write(pb, write))
PassDepthTestOp ==
    \E operation \in Compares :
       Configure("depth_test_op", operation, depth_test_op(pb, operation))
PassBasicDepthTest == Configure("basic_depth_test", "none", basic_depth_test(pb))
PassInverseDepthTest == Configure("inverse_depth_test", "none", inverse_depth_test(pb))

\* ---------------------------------- GraphicalPassBuilder::vertex_input
PassVertexInput ==
    /\ pb.some
    /\ \E fields \in VertexInputs :
          pb' = vertex_input(pb, fields)
    /\ pcall' = PassCall("vertex_input", "Ok", NoAttachmentError)
    /\ UNCHANGED frameVars

\* --------------------------------- GraphicalPassBuilder::vertex_shader
PassVertexShader ==
    /\ pb.some
    /\ \E inputs \in VertexShaders :
          pb' = vertex_shader(pb, inputs)
    /\ pcall' = PassCall("vertex_shader", "Ok", NoAttachmentError)
    /\ UNCHANGED frameVars

\* ------------------------------- GraphicalPassBuilder::fragment_shader
PassFragmentShader ==
    /\ pb.some
    /\ \E shader \in FragmentShaders :
          pb' = fragment_shader(pb, shader)
    /\ pcall' = PassCall("fragment_shader", "Ok", NoAttachmentError)
    /\ UNCHANGED frameVars

\* ------------------------------------------ GraphicalPassBuilder::build
\* Creating the render pass reads the description's only subpass; the
\* subpass handed to the pipeline builder is unwrapped.
PassBuild ==
    /\ BuildCallable(pb)
    /\ LET description == GraphicalRenderPassDescription(pb.attachments, pb.depth_attachment)
           pipeline == PipelineStart(pb)
           Tried(ret, err, attempted) ==
               [PassCall("build", ret, err)
                   EXCEPT !.desc = description,
                          !.subpass = subpass_desc(description, 0),
                          !.attempted = attempted]
       IN
       IF Len(pb.attachments) = 0
       THEN pcall' = PassCall("build", "Err", BuildError("NoAttachments"))
       ELSE \E rp \in RenderPassOutcomes :
              IF rp # "Ok"
              THEN pcall' = Tried("Err", BuildError(rp), <<"render_pass">>)
              ELSE IF ~SubpassFrom(description, 0).some
              THEN pcall' = Tried("Panic", NoAttachmentError, <<"render_pass">>)
              ELSE \E out \in PipelineOutcomes(pipeline) :
                     pcall' = [Tried(IF out = "Ok" THEN "Ok" ELSE "Err",
                                     IF out = "Ok" THEN NoAttachmentError ELSE BuildError(out),
                                     <<"render_pass", "pipeline">>)
                                 EXCEPT !.pipeline = pipeline]
    /\ pb' = NoBuilder
    /\ UNCHANGED frameVars

NextBuilder ==
    \/ PassStart
    \/ PassVertexInput
    \/ PassVertexShader
    \/ PassFragmentShader
    \/ PassAddImageAttachment
    \/ PassAddDepthAttachment
    \/ PassBuild

\* ------------------------------------------------ queue families
\* A queue family of the physical device; its id is its place in the list.
QueueFamily(id, graphics, compute, transfers, count) ==
    [id |-> id, supports_graphics |-> graphics, supports_compute |-> compute,
     explicitly_supports_transfers |-> transfers, queues_count |-> count]
FamiliesAt(id) ==
    {QueueFamily(id, g, c, t, n) : g \in BOOLEAN, c \in BOOLEAN, t \in BOOLEAN,
                                   n \in 1 .. MaxQueues}
RECURSIVE FamilyLists(_)
FamilyLists(k) ==
    IF k = 0 THEN {<<>>}
    ELSE {Append(d, f) : d \in FamilyLists(k - 1), f \in FamiliesAt(k - 1)}

validate_physical_device(families) ==
    /\ \E i \in 1 .. Len(families) :
          families[i].queues_count > 0 /\ families[i].supports_graphics
    /\ \E i \in 1 .. Len(families) :
          families[i].queues_count > 0 /\ families[i].supports_compute

\* The physical devices select_physical_device lets through.
PhysicalDevices ==
    {d \in UNION {FamilyLists(k) : k \in 1 .. MaxFamilies} : validate_physical_device(d)}

choose_better_graphics_family(first, second) ==
    IF ~second.supports_graphics THEN first
    ELSE IF second.supports_compute THEN first ELSE second

choose_better_transfer_family(first, second) ==
    IF ~second.explicitly_supports_transfers THEN first
    ELSE IF second.supports_graphics THEN first
    ELSE IF first.supports_graphics THEN second
    ELSE IF second.supports_compute THEN first ELSE second

choose_better_compute_family(first, second) ==
    IF ~second.supports_compute THEN first
    ELSE IF second.supports_graphics THEN first ELSE second

\* for other in families { ... }, from the family at place i on
RECURSIVE BestFamilies(_, _, _)
BestFamilies(best, families, i) ==
    IF i > Len(families) THEN best
    ELSE BestFamilies(
           [graphics |-> choose_better_graphics_family(best.graphics, families[i]),
            transfer |-> choose_better_transfer_family(best.transfer, families[i]),
            compute |-> choose_better_compute_family(best.compute, families[i])],
           families, i + 1)

\* `bool as usize`
AsUsize_Zero(b) == 0
AsUsize(b) == IF b THEN 1 ELSE 0

\* Priorities 1.0, 0.5 and 0.25 are written in hundredths.
select_queue_families(families) ==
    LET first == families[1]
        best == BestFamilies([graphics |-> first, transfer |-> first, compute |-> first],
                             families, 2)
        graphics == best.graphics
        transfer == best.transfer
        compute == best.compute
        append_transfer ==
            transfer.queues_count > AsUsize(transfer.id = graphics.id)
        append_compute ==
            compute.queues_count >
                AsUsize(compute.id = graphics.id \/ compute.id = transfer.id)
                  + AsUsize(append_transfer)
    IN <<[family |-> graphics, priority |-> 100]>>
         \o (IF append_transfer THEN <<[family |-> transfer, priority |-> 50]>> ELSE <<>>)
         \o (IF append_compute THEN <<[family |-> compute, priority |-> 25]>> ELSE <<>>)

\* LogicalDevice::new hands back one queue for each family asked for, in the
\* order asked; a queue is its family and its place among that family's.
DeviceQueue(requests, i) ==
    [family |-> requests[i].family.id,
     index |-> Cardinality({j \in 1 .. (i - 1) : requests[j].family.id = requests[i].family.id})]
CreatedQueues(requests) == [i \in 1 .. Len(requests) |-> DeviceQueue(requests, i)]
LogicalDeviceOutcomes == {"Ok", "Logical"}

NoQueue == [family |-> 0, index |-> 0]
NoQueues == [graphics |-> NoQueue, transfer |-> NoQueue, compute |-> NoQueue]
unpack_queues(queues) ==
    CASE Len(queues) = 1 ->
           [ret |-> "Ok",
            val |-> [graphics |-> queues[1], transfer |-> queues[1], compute |-> queues[1]]]
      [] Len(queues) = 2 -> [ret |-> "Panic", val |-> NoQueues]
      [] Len(queues) = 3 ->
           [ret |-> "Ok",
            val |-> [graphics |-> queues[1], transfer |-> queues[2], compute |-> queues[3]]]
      [] OTHER -> [ret |-> "Panic", val |-> NoQueues]

DeviceCreation(families) ==
    [op |-> "Device::create", done |-> FALSE, physical |-> families,
     ret |-> "none", requests |-> <<>>, queues |-> <<>>, roles |-> NoQueues]

InitQueues ==
    \E families \in PhysicalDevices :
       StartFrom(Limits(MaxFrames, MaxCmds, MaxGen), DeviceCreation(families))

\* Device::create, up to the queues of the Device
DeviceCreate ==
    /\ creation.op = "Device::create"
    /\ ~creation.done
    /\ LET requests == select_queue_families(creation.physical)
           queues == CreatedQueues(requests)
           unpacked == unpack_queues(queues)
       IN \E out \in LogicalDeviceOutcomes :
            creation' =
               IF out # "Ok"
               THEN [creation EXCEPT !.done = TRUE, !.ret = out, !.requests = requests]
               ELSE [creation EXCEPT !.done = TRUE, !.ret = unpacked.ret,
                                     !.requests = requests,
                                     !.queues = queues, !.roles = unpacked.val]
    /\ UNCHANGED <<device, frame, pif, sc, order, signaled, fences, frameNo, recorders,
                   panicked, last, recov, lim, passVars, acquiring>>

NextQueues == DeviceCreate

SpecQueues == InitQueues /\ [][NextQueues]_vars

\* ------------------------------------------------- surface formats
ImageFormats ==
    {<<"B8G8R8A8Unorm", "SrgbNonLinear">>, <<"B8G8R8A8Srgb", "SrgbNonLinear">>,
     <<"R8G8B8A8Unorm", "SrgbNonLinear">>}
RECURSIVE FormatLists(_)
FormatLists(k) ==
    IF k = 0 THEN {<<>>}
    ELSE {Append(l, f) : l \in FormatLists(k - 1), f \in ImageFormats}
SupportedFormats == UNION {FormatLists(k) : k \in 0 .. MaxFormats}

choose_better_format_Second(first, second) == second
choose_better_format(first, second) == first

\* for other in formats { format = choose_better_format(format, other) }
RECURSIVE BestFormat(_, _, _)
BestFormat(format, formats, i) ==
    IF i > Len(formats) THEN format
    ELSE BestFormat(choose_better_format(format, formats[i]), formats, i + 1)

NoFormat == <<"none", "none">>
select_format(formats) ==
    IF Len(formats) = 0
    THEN [ret |-> "Err", err |-> "NoCompatibleFormatFound", val |-> NoFormat]
    ELSE [ret |-> "Ok", err |-> "none", val |-> BestFormat(formats[1], formats, 1)]

SwapchainCreation(formats) ==
    [op |-> "create_swapchain", done |-> FALSE, supported_formats |-> formats,
     ret |-> "none", err |-> "none", format |-> NoFormat]

InitFormats ==
    \E formats \in SupportedFormats :
       StartFrom(Limits(MaxFrames, MaxCmds, MaxGen), SwapchainCreation(formats))

\* create_swapchain: the surface's capabilities, the format, the swapchain
CreateSwapchain ==
    /\ creation.op = "create_swapchain"
    /\ ~creation.done
    /\ LET selected == select_format(creation.supported_formats)
       IN \E caps \in {"Ok", "SurfaceCapabilities"}, out \in {"Ok", "Swapchain"} :
            creation' =
               IF caps # "Ok"
               THEN [creation EXCEPT !.done = TRUE, !.ret = "Err", !.err = caps]
               ELSE IF selected.ret = "Err"
               THEN [creation EXCEPT !.done = TRUE, !.ret = "Err", !.err = selected.err]
               ELSE [creation EXCEPT !.done = TRUE, !.format = selected.val,
                                     !.ret = IF out = "Ok" THEN "Ok" ELSE "Err",
                                     !.err = IF out = "Ok" THEN "none" ELSE out]
    /\ UNCHANGED <<device, frame, pif, sc, order, signaled, fences, frameNo, recorders,
                   panicked, last, recov, lim, passVars, acquiring>>

NextFormats == CreateSwapchain

SpecFormats == InitFormats /\ [][NextFormats]_vars

\* ----------------------------- GraphicalRenderPassDescription<A>
\* An AttachmentCollection is the sequence of its attachments in the order
\* they were pushed: the nested tuple (A, attachment) is Append(A, attachment).
AttachmentTypes == {"SwapchainColor", "SwapchainDepth", "General"}
Attachment(type, desc) == [type |-> type, desc |-> desc]
ColorAttachments ==
    {Attachment("SwapchainColor", ColorAttachment("B8G8R8A8Unorm")),
     Attachment("General", ColorAttachment("B8G8R8A8Unorm"))}
DepthAttachments == {Attachment("SwapchainDepth", DepthAttachment("D16Unorm"))}

\* AttachmentCollection::get: 0 is the attachment pushed last.
RECURSIVE get(_, _)
get(attachments, num) ==
    IF Len(attachments) = 0 THEN None
    ELSE IF num = 0 THEN Some(attachments[Len(attachments)])
    ELSE get(SubSeq(attachments, 1, Len(attachments) - 1), num - 1)

push_attachment(d, type, desc) ==
    GraphicalRenderPassDescription(Append(d.attachments, Attachment(type, desc)),
                                   d.depth_attachment)
pop_attachment(d) ==
    [remainder |-> GraphicalRenderPassDescription(
                       SubSeq(d.attachments, 1, Len(d.attachments) - 1),
                       d.depth_attachment),
     popped |-> d.attachments[Len(d.attachments)]]

\* usize arithmetic: a debug build panics when a difference is negative, a
\* release build wraps it.
Builds == {"debug", "release"}
UsizeSub(a, b, build) ==
    IF a - b >= 0 THEN [ok |-> TRUE, val |-> a - b, underflow |-> FALSE]
    ELSE IF build = "debug" THEN [ok |-> FALSE, val |-> 0, underflow |-> TRUE]
    ELSE [ok |-> TRUE, val |-> (a - b) % (2 ^ UsizeBits), underflow |-> TRUE]

NoAttachment == Attachment("none", ColorAttachment("none"))
\* self.attachments.get(A::ATTACHMENT_COUNT - num - 1)
attachment_desc(d, num, build) ==
    LET first == UsizeSub(ATTACHMENT_COUNT(d), num, build)
        index == IF first.ok THEN UsizeSub(first.val, 1, build) ELSE first
        found == IF index.ok THEN get(d.attachments, index.val) ELSE None
    IN [ret |-> IF ~index.ok THEN "Panic" ELSE IF found.some THEN "Some" ELSE "None",
        val |-> IF index.ok /\ found.some THEN found.val.desc ELSE NoAttachment.desc,
        underflow |-> first.underflow \/ index.underflow]

\* The descriptions a builder hands over: the depth index, when there is
\* one, is the place of the only depth attachment.
RECURSIVE AttachmentLists(_)
AttachmentLists(k) ==
    IF k = 0 THEN {<<>>}
    ELSE {Append(l, a) : l \in AttachmentLists(k - 1),
                         a \in ColorAttachments \cup DepthAttachments}
DepthsOf(l) == {i \in 1 .. Len(l) : l[i] \in DepthAttachments}
BuiltDescriptions ==
    {GraphicalRenderPassDescription(l, IF DepthsOf(l) = {} THEN None
                                       ELSE Some((CHOOSE i \in DepthsOf(l) : TRUE) - 1)) :
        l \in {m \in UNION {AttachmentLists(k) : k \in 0 .. MaxAttachments} :
                  Cardinality(DepthsOf(m)) <= 1}}

Description(d, call) ==
    [op |-> "description", desc |-> d, call |-> call, num |-> 0, build |-> "none",
     ret |-> "none", val |-> NoAttachment.desc, underflow |-> FALSE]

InitDescription ==
    \E d \in BuiltDescriptions :
       StartFrom(Limits(MaxFrames, MaxCmds, MaxGen), Description(d, "new"))

DescriptionStep(next) ==
    /\ creation.op = "description"
    /\ creation' = next
    /\ UNCHANGED <<device, frame, pif, sc, order, signaled, fences, frameNo, recorders,
                   panicked, last, recov, lim, passVars, acquiring>>

DescPushAttachment ==
    /\ Len(creation.desc.attachments) < MaxAttachments
    /\ \E a \in ColorAttachments :
          DescriptionStep(Description(push_attachment(creation.desc, a.type, a.desc),
                                      "push_attachment"))

\* pop_attachment exists for the descriptions that hold an attachment.
DescPopAttachment ==
    /\ Len(creation.desc.attachments) > 0
    /\ DescriptionStep(Description(pop_attachment(creation.desc).remainder, "pop_attachment"))

DescAttachmentDesc ==
    \E num \in 0 .. (MaxAttachments + 1), build \in Builds :
       LET r == attachment_desc(creation.desc, num, build)
       IN DescriptionStep([Description(creation.desc, "attachment_desc") EXCEPT
                              !.num = num, !.build = build, !.ret = r.ret,
                              !.val = r.val, !.underflow = r.underflow])

NextDescription ==
    \/ DescPushAttachment
    \/ DescPopAttachment
    \/ DescAttachmentDesc

SpecDescription == InitDescription /\ [][NextDescription]_vars

\* ----------------------------- the examples' render loops
\* quad and shadow run a winit closure per event and keep the Device in an
\* Option slot; cube runs a while loop, keeps the Device in a plain binding
\* and polls its events at the end of an iteration.
Examples == {"quad", "shadow", "cube"}
LoopResizeOutcomes == {"Ok", "Swapchain", "Image"}
LoopBeginOutcomes == {"Ok", "Err"}
LoopFinishOutcomes == {"Ok", "OutOfDate", "Other"}
LoopEvents == {"none", "Resized", "CloseRequested"}

\* match swapchain.resize(..) { Ok => (), Err(Swapchain(_)) => return, Err(err) => panic!(err) }
ResizeArm_Continue(ret) == IF ret \in {"Ok", "Swapchain"} THEN "continue" ELSE "panic"
ResizeArm(ret) ==
    IF ret = "Ok" THEN "continue" ELSE IF ret = "Swapchain" THEN "return" ELSE "panic"

Loop(example) ==
    [op |-> "loop", example |-> example, recreate_swapchain |-> FALSE, device |-> TRUE,
     running |-> TRUE, panicked |-> FALSE, frame_count |-> 0, handler |-> "none",
     resize |-> "none", begun |-> FALSE, finish |-> "none"]

CountFrame(n) == IF n < MaxFrameCount THEN n + 1 ELSE n

\* The body both loops share, from `if recreate_swapchain` to `frame_count += 1`.
RedrawBody(l, handler, resize, begin, finish) ==
    LET called == l.recreate_swapchain
        arm == IF called THEN ResizeArm(resize) ELSE "continue"
        start == [l EXCEPT !.handler = handler,
                           !.resize = IF called THEN resize ELSE "none",
                           !.begun = FALSE, !.finish = "none"]
    IN IF arm = "return" THEN start
       ELSE IF arm = "panic" THEN [start EXCEPT !.panicked = TRUE, !.running = FALSE]
       ELSE IF begin = "Err"
            \* Frame::begin(device.take().unwrap(), ..).unwrap()
            THEN [start EXCEPT !.recreate_swapchain = FALSE, !.device = FALSE,
                               !.panicked = TRUE, !.running = FALSE]
       ELSE [start EXCEPT !.recreate_swapchain = (finish = "OutOfDate"),
                          !.device = TRUE, !.begun = TRUE, !.finish = finish,
                          !.frame_count = CountFrame(l.frame_count)]

InitLoop ==
    \E example \in Examples : StartFrom(Limits(MaxFrames, MaxCmds, MaxGen), Loop(example))

LoopStep(next) ==
    /\ creation.op = "loop"
    /\ creation.running
    /\ creation' = next
    /\ UNCHANGED <<device, frame, pif, sc, order, signaled, fences, frameNo, recorders,
                   panicked, last, recov, lim, passVars, acquiring>>

LoopResized ==
    /\ creation.example \in {"quad", "shadow"}
    /\ LoopStep([creation EXCEPT !.handler = "Resized", !.recreate_swapchain = TRUE])

LoopCloseRequested ==
    /\ creation.example \in {"quad", "shadow"}
    /\ LoopStep([creation EXCEPT !.handler = "CloseRequested", !.running = FALSE])

LoopRedrawEventsCleared ==
    /\ creation.example \in {"quad", "shadow"}
    /\ \E resize \in LoopResizeOutcomes, begin \in LoopBeginOutcomes,
          finish \in LoopFinishOutcomes :
          LoopStep(RedrawBody(creation, "RedrawEventsCleared", resize, begin, finish))

\* One iteration of cube's while loop; `continue` skips poll_events too.
LoopIteration ==
    /\ creation.example = "cube"
    /\ \E resize \in LoopResizeOutcomes, begin \in LoopBeginOutcomes,
          finish \in LoopFinishOutcomes, event \in LoopEvents :
          LET body == RedrawBody(creation, "iteration", resize, begin, finish)
          IN LoopStep(IF ~body.begun THEN body
                      ELSE IF event = "Resized"
                           THEN [body EXCEPT !.recreate_swapchain = TRUE]
                      ELSE IF event = "CloseRequested"
                           THEN [body EXCEPT !.running = FALSE]
                      ELSE body)

NextLoop ==
    \/ LoopResized
    \/ LoopCloseRequested
    \/ LoopRedrawEventsCleared
    \/ LoopIteration

SpecLoop == InitLoop /\ [][NextLoop]_vars

\* ----------------------------- Pass framebuffers and the triangle example
\* The revision in which a Pass owns one framebuffer per swapchain image and
\* Device::start_frame picks the framebuffer by the acquired index.
ImageCounts == {2, 3}
SwapchainImages(gen, count) == [i \in 1 .. count |-> [gen |-> gen, image |-> i - 1]]
Framebuffer(image) == [image |-> image]
NoFramebuffer == Framebuffer([gen |-> 0, image |-> 0])
WindowSizes == {"Some", "None"}

\* Pass::resize_for_window: Err before anything is written, or the
\* framebuffers replaced by one per device.swapchain_images entry.
Pass_resize_for_window_Extend(pass, dev, size) ==
    IF size = "None" THEN [ret |-> "Err", pass |-> pass]
    ELSE [ret |-> "Ok",
          pass |-> [pass EXCEPT !.framebuffers =
                       pass.framebuffers \o
                       [i \in 1 .. Len(dev.swapchain_images) |->
                           Framebuffer(dev.swapchain_images[i])]]]
Pass_resize_for_window(pass, dev, size) ==
    IF size = "None" THEN [ret |-> "Err", pass |-> pass]
    ELSE [ret |-> "Ok",
          pass |-> [pass EXCEPT !.framebuffers =
                       [i \in 1 .. Len(dev.swapchain_images) |->
                           Framebuffer(dev.swapchain_images[i])]]]

\* Device::resize_for_window: UnsizedWindow, the recreation's error, or the
\* swapchain and its images replaced together.
Device_resize_for_window(dev, size, recreate, count) ==
    IF size = "None" \/ recreate = "Err" THEN [ret |-> "Err", dev |-> dev]
    ELSE [ret |-> "Ok",
          dev |-> [swapchain |-> dev.swapchain + 1,
                   swapchain_images |-> SwapchainImages(dev.swapchain + 1, count)]]

\* Device::start_frame up to begin_render_pass(final_pass.framebuffers()[image_index]).
start_frame(dev, pass, acquire, image_index) ==
    IF acquire = "Err" THEN [ret |-> "Err", rendered |-> NoFramebuffer]
    ELSE IF image_index >= Len(pass.framebuffers)
         THEN [ret |-> "Panic", rendered |-> NoFramebuffer]
    ELSE [ret |-> "Ok", rendered |-> pass.framebuffers[image_index + 1]]

TriangleDevice == [swapchain |-> 1, swapchain_images |-> SwapchainImages(1, 2)]
Triangle ==
    [op |-> "triangle", device |-> TriangleDevice,
     pass |-> Pass_resize_for_window([framebuffers |-> <<>>], TriangleDevice, "Some").pass,
     recreate_swapchain |-> FALSE, running |-> TRUE, panicked |-> FALSE,
     resized |-> FALSE, begun |-> FALSE, image_index |-> 0, rendered |-> NoFramebuffer,
     finish |-> "none"]

InitTriangle == StartFrom(Limits(MaxFrames, MaxCmds, MaxGen), Triangle)

\* The body of `while running` in the triangle example, every unwrap a panic.
TriangleBody(t, size, recreate, count, passSize, acquire, image_index, finish, event) ==
    LET start == [t EXCEPT !.resized = FALSE, !.begun = FALSE, !.finish = "none",
                           !.rendered = NoFramebuffer]
        stop == [start EXCEPT !.panicked = TRUE, !.running = FALSE]
        dr == Device_resize_for_window(t.device, size, recreate, count)
        pr == Pass_resize_for_window(t.pass, dr.dev, passSize)
        ready == IF ~t.recreate_swapchain THEN start
                 ELSE [start EXCEPT !.device = dr.dev, !.pass = pr.pass,
                                    !.resized = TRUE, !.recreate_swapchain = FALSE]
        sf == start_frame(ready.device, ready.pass, acquire, image_index)
    IN IF t.recreate_swapchain /\ dr.ret = "Err" THEN stop
       ELSE IF t.recreate_swapchain /\ pr.ret = "Err" THEN [stop EXCEPT !.device = dr.dev]
       ELSE IF sf.ret # "Ok" THEN [ready EXCEPT !.panicked = TRUE, !.running = FALSE]
       ELSE [ready EXCEPT !.begun = TRUE, !.image_index = image_index,
                          !.rendered = sf.rendered, !.finish = finish,
                          !.recreate_swapchain =
                              \/ finish = "OutOfDate"
                              \/ event = "Resized",
                          !.running = (event # "CloseRequested")]

\* Window resizes and out-of-date presents stop once MaxGen swapchains were
\* recreated.
TriangleIteration ==
    /\ creation.op = "triangle"
    /\ creation.running
    /\ \E size \in WindowSizes, recreate \in {"Ok", "Err"}, count \in ImageCounts,
          passSize \in WindowSizes, acquire \in LoopBeginOutcomes,
          image_index \in 0 .. 2, finish \in LoopFinishOutcomes, event \in LoopEvents :
          /\ image_index < Len(IF creation.recreate_swapchain
                               THEN Device_resize_for_window(creation.device, size,
                                        recreate, count).dev.swapchain_images
                               ELSE creation.device.swapchain_images)
          /\ (finish = "OutOfDate" \/ event = "Resized")
                => creation.device.swapchain <= MaxGen
          /\ creation' = TriangleBody(creation, size, recreate, count, passSize,
                                      acquire, image_index, finish, event)
    /\ UNCHANGED <<device, frame, pif, sc, order, signaled, fences, frameNo, recorders,
                   panicked, last, recov, lim, passVars, acquiring>>

NextTriangle == TriangleIteration

SpecTriangle == InitTriangle /\ [][NextTriangle]_vars

\* ----------------------------- ShadowPass::new
ShadowFormats ==
    {"B8G8R8A8Unorm", "R32Sfloat", "D16Unorm", "D32Sfloat", "S8Uint", "D24Unorm_S8Uint"}
\* Format::ty
ty(format) ==
    IF format \in {"D16Unorm", "D32Sfloat"} THEN "Depth"
    ELSE IF format = "S8Uint" THEN "Stencil"
    ELSE IF format = "D24Unorm_S8Uint" THEN "DepthStencil"
    ELSE "Float"
is_depth_and_or_stencil(t) == t \in {"Depth", "Stencil", "DepthStencil"}
ShadowDimensions == {<<w, h>> : w \in 1 .. 3, h \in 1 .. 3}
CreationOutcomes == {"Ok", "Err"}

NoRenderPass == [attachments |-> <<>>, color |-> <<>>, depth_stencil |-> None]
\* single_pass_renderpass!(attachments: {depth: {format, ..}}, pass: {color: [], depth_stencil: {depth}})
ShadowRenderPass(format) ==
    [attachments |-> <<[name |-> "depth", load |-> "Clear", store |-> "Store",
                        format |-> format, samples |-> 1]>>,
     color |-> <<>>, depth_stencil |-> Some(0)]

\* The format test of ShadowPass::new, as written.
RejectsFormat(format) == is_depth_and_or_stencil(ty(format))

ShadowPass_new(format, dimensions, render_pass, pipeline, image) ==
    IF RejectsFormat(format)
    THEN [ret |-> "Err", err |-> "IncorrectFormat", render_pass |-> NoRenderPass]
    ELSE IF render_pass = "Err"
    THEN [ret |-> "Err", err |-> "RenderPass", render_pass |-> NoRenderPass]
    ELSE IF pipeline = "Err"
    THEN [ret |-> "Err", err |-> "GraphicsPipeline", render_pass |-> NoRenderPass]
    ELSE IF image = "Err"
    THEN [ret |-> "Err", err |-> "Image", render_pass |-> NoRenderPass]
    ELSE [ret |-> "Ok", err |-> "none", render_pass |-> ShadowRenderPass(format)]

ShadowCreation(format, dimensions) ==
    [op |-> "ShadowPass::new", done |-> FALSE, format |-> format,
     dimensions |-> dimensions, ret |-> "none", err |-> "none",
     render_pass |-> NoRenderPass]

InitShadow ==
    \E format \in ShadowFormats, dimensions \in ShadowDimensions :
       StartFrom(Limits(MaxFrames, MaxCmds, MaxGen), ShadowCreation(format, dimensions))

ShadowPassNew ==
    /\ creation.op = "ShadowPass::new"
    /\ ~creation.done
    /\ \E render_pass \in CreationOutcomes, pipeline \in CreationOutcomes,
          image \in CreationOutcomes :
          LET r == ShadowPass_new(creation.format, creation.dimensions,
                                  render_pass, pipeline, image)
          IN creation' = [creation EXCEPT !.done = TRUE, !.ret = r.ret, !.err = r.err,
                                          !.render_pass = r.render_pass]
    /\ UNCHANGED <<device, frame, pif, sc, order, signaled, fences, frameNo, recorders,
                   panicked, last, recov, lim, passVars, acquiring>>

NextShadow == ShadowPassNew

SpecShadow == InitShadow /\ [][NextShadow]_vars

\* Configuration calls and type-changing calls in any order, on a builder
\* with or without its depth attachment.
NextCarry ==
    \/ PassStart
    \/ PassPrimitiveTopology
    \/ PassCullMode
    \/ PassDepthWrite
    \/ PassVertexInput
    \/ PassVertexShader
    \/ PassFragmentShader
    \/ PassAddDepthAttachment
    \/ PassBuild

SpecCarry == Init /\ [][NextCarry]_vars

NextConfig ==
    \/ PassStart
    \/ PassPrimitiveTopology
    \/ PassCullMode
    \/ PassFrontFace
    \/ PassDepthWrite
    \/ PassDepthTestOp
    \/ PassBasicDepthTest
    \/ PassInverseDepthTest

Next ==
    \/ FrameBegin
    \/ FrameBeginPass
    \/ PassDraw
    \/ PassDrawIndexed
    \/ PassFinishPass
    \/ FrameFinish
    \/ SwapchainResize
    \/ DeviceResizeForWindow
    \/ DropFrame
    \/ GpuSignalFence

Spec == Init /\ [][Next]_vars

SpecRecord == InitRecord /\ [][Next]_vars

SpecRetry == InitRetry /\ [][Next]_vars

\* The frame loop of one thread with the wait inside begin spelled out:
\* while begin waits the caller makes no other call.  Every frame is on the
\* first swapchain generation.  An image that is free is handed out, and the
\* GPU finishes the work queued to it.
InitLive == Start(Limits(MaxFrames + 1, MaxCmds, 1))

NextLive ==
    \/ FrameBeginCall
    \/ FrameBeginReturn
    \/ FrameBeginFailed
    \/ FrameBeginPass
    \/ PassDraw
    \/ PassDrawIndexed
    \/ PassFinishPass
    \/ FrameFinish
    \/ SwapchainResize
    \/ DeviceResizeForWindow
    \/ DropFrame
    \/ GpuSignalFence

SpecLive ==
    /\ InitLive
    /\ [][NextLive]_vars
    /\ WF_vars(FrameBeginReturn)
    /\ WF_vars(GpuSignalFence)

\* The configuration of a pass, from GraphicalPass::start to build.
SpecBuilder == Init /\ [][NextBuilder]_vars
SpecConfig == Init /\ [][NextConfig]_vars


\* ======================================================================
\* Properties
\* ======================================================================

\* The step is the API call `op` (the GPU's own steps leave `last` alone).
IsCall(op) == last'.op = op /\ signaled' = signaled

\* Where a command stream stands: "out" when it is (Begin Draw* End)*,
\* "in" when it is (Begin Draw* End)* Begin Draw*, "bad" otherwise.
RECURSIVE Scan(_, _, _)
Scan(cmds, i, where) ==
    IF i > Len(cmds) THEN where
    ELSE LET op == cmds[i].op IN
         IF where = "out" /\ op = "BeginRenderPass" THEN Scan(cmds, i + 1, "in")
         ELSE IF where = "in" /\ op \in {"Draw", "DrawIndexed"} THEN Scan(cmds, i + 1, "in")
         ELSE IF where = "in" /\ op = "EndRenderPass" THEN Scan(cmds, i + 1, "out")
         ELSE "bad"
Shape(cmds) == Scan(cmds, 1, "out")

\* C1: the commands recorded for a frame always have the shape
\* (BeginRenderPass Draw* EndRenderPass)*: a Frame's recorder and every
\* submitted command buffer are outside a pass, a PassInFrame's recorder is
\* inside one; draw and draw_indexed happen only on a PassInFrame,
\* begin_pass and finish only on a Frame, begin only on a Device.
C1_CommandStreamShape ==
    /\ [](/\ frame.some => Shape(frame.commands) = "out"
          /\ pif.some => Shape(pif.frame.commands) = "in"
          /\ last.cb.queued => Shape(last.cb.commands) = "out")
    /\ [][/\ (IsCall("draw") \/ IsCall("draw_indexed") \/ IsCall("finish_pass"))
               => (pif.some /\ ~frame.some /\ ~device.some)
          /\ (IsCall("begin_pass") \/ IsCall("finish"))
               => (frame.some /\ ~pif.some /\ ~device.some)
          /\ IsCall("begin") => (device.some /\ ~frame.some /\ ~pif.some)]_vars
C1_Witness ==
    /\ last.op = "finish" /\ last.cb.queued
    /\ Len(last.cb.commands) = 6
    /\ last.cb.commands[2].op = "DrawIndexed"
    /\ last.cb.commands[4].op = "BeginRenderPass"
    /\ last.cb.commands[5].op = "Draw"

\* C2: the Device, a Frame and a PassInFrame never exist side by side, and
\* the caller's Device slot is refilled only by finish.
C2_SingleFrame ==
    /\ [](Cardinality({h \in {device, frame, pif} : h.some}) <= 1
          /\ ~(device.some /\ frame.some) /\ ~(device.some /\ pif.some)
          /\ ~(frame.some /\ pif.some))
    /\ [][(~device.some /\ device'.some) => (IsCall("finish") /\ frame.some)]_vars
C2_Witness ==
    last.op = "finish" /\ last.n = 2 /\ device.some /\ ~frame.some /\ ~pif.some

\* C3: a begin that fails to acquire an image hands back the Device exactly
\* as it was (pending future, queues, handles) and opens no recorder.
C3_AcquireFailureKeepsDevice ==
    [][(IsCall("begin") /\ last'.ret = "Err")
          => /\ device' = device
             /\ device'.some
             /\ frame' = NoFrame /\ pif' = NoPass
             /\ recorders' = recorders
             /\ frameNo' = frameNo]_vars
C3_Witness ==
    /\ last.op = "begin" /\ last.ret = "Err" /\ last.err.kind = "Acquire"
    /\ device.some /\ device.before_frame.some

LifecycleOps == {"begin", "begin_pass", "draw", "draw_indexed", "finish_pass", "finish"}

\* C4 as claimed: no lifecycle operation panics, and after every failure the
\* caller holds a Device again.
C4_Original ==
    last.op \in LifecycleOps /\ last.ret # "Ok" => (~panicked /\ device.some)

\* C4 as amended: an acquire failure in begin and a submission or flush
\* failure in finish hand the Device back with a specific error; every other
\* failure (opening the recorder, recording a command, building the command
\* buffer) is a panic in which the Device is lost.
C4_ErrorsReturnDevice ==
    /\ (last.op \in LifecycleOps /\ last.ret = "Err")
          => /\ last.op \in {"begin", "finish"}
             /\ last.fault \in {"acquire", "execute", "flush"}
             /\ last.err.kind \in {"Acquire", "Commands", "Flush"}
             /\ last.err.code = last.code /\ last.code # "None"
             /\ device.some /\ ~frame.some /\ ~pif.some /\ ~panicked
    /\ (last.op \in LifecycleOps /\ last.ret = "Panic")
          => /\ last.fault \in {"recorder", "begin_render_pass", "draw",
                                "end_render_pass", "build"}
             /\ panicked /\ ~device.some
    /\ panicked => last.ret = "Panic"
C4_Witness ==
    last.op = "begin" /\ last.ret = "Err" /\ device.some /\ frameNo = 1

\* C5: a Device handed back with Flush(OutOfDate) stays with the caller, and
\* once a resize has succeeded, begin on it yields a Frame whenever vulkano
\* acquires an image and opens a recorder.
C5_UsableAfterOutOfDate ==
    /\ [](recov \in {"outOfDate", "resized"} => (device.some /\ ~panicked))
    /\ [][(recov = "resized" /\ IsCall("begin"))
             => \/ /\ last'.ret = "Ok"
                   /\ frame'.some
                   /\ frame'.device = [device EXCEPT !.before_frame = None]
                   /\ recov' = "begun"
                \/ last'.ret = "Err" /\ last'.fault = "acquire" /\ device' = device
                \/ last'.ret = "Panic" /\ last'.fault = "recorder"]_vars
C5_Witness ==
    recov = "done" /\ last.op = "finish" /\ last.ret = "Ok" /\ device.some

\* C6: a successful begin leaves no completed work in the Frame's future,
\* keeps every unfinished event of the prior pending future and adds the
\* acquired image's signal; without a pending future the Frame's future is
\* the acquired image's signal alone.
C6_BeginChainsAfterPruning ==
    [][(IsCall("begin") /\ last'.ret = "Ok")
          => LET acq == Event("acquire", frameNo') IN
             IF device.before_frame.some
             THEN /\ acq \in frame'.time
                  /\ \A e \in device.before_frame.val :
                        e[2] \notin signaled => e \in frame'.time
                  /\ \A e \in frame'.time : e[2] \notin signaled
                  /\ frame'.time \subseteq device.before_frame.val \cup {acq}
             ELSE frame'.time = {acq}]_vars
C6_Witness ==
    /\ last.op = "begin" /\ last.ret = "Ok" /\ last.hadPending /\ last.pruned
    /\ frame.some

\* C7: a successful finish queues the command buffer after everything in the
\* Frame's future, the present of the acquired image after the command
\* buffer and the fence after the present, and the Device it returns holds
\* exactly that future.
C7_FinishOrdering ==
    [][(IsCall("finish") /\ last'.ret = "Ok")
          => LET n == frame.n
                 submit == Event("submit", n)
                 present == Event("present", n)
                 fence == Event("fence", n)
             IN /\ \A e \in frame.time : <<e, submit>> \in order'
                /\ <<submit, present>> \in order'
                /\ <<present, fence>> \in order'
                /\ <<present, submit>> \notin order'
                /\ \A e \in frame.time : <<e, present>> \notin order'
                /\ last'.cb = [queued |-> TRUE, commands |-> frame.commands]
                /\ last'.present = [asked |-> TRUE, gen |-> frame.swapchain.gen,
                                    index |-> frame.swapchain_index]
                /\ device'.some
                /\ device'.before_frame = Some(frame.time \cup {submit, present, fence})
                /\ n \in fences']_vars
C7_Witness ==
    /\ last.op = "finish" /\ last.ret = "Ok" /\ last.n = 2
    /\ device.some /\ device.before_frame.some
    /\ Event("fence", 1) \in device.before_frame.val
    /\ Event("fence", 2) \in device.before_frame.val

\* C8 as claimed: every Device returned by finish, failed or not, carries a
\* pending future.
C8_Original ==
    (last.op = "finish" /\ last.ret \in {"Ok", "Err"} /\ device.some)
        => device.before_frame.some

\* C8 as amended: begin takes the pending future (the Device inside a Frame
\* has an empty slot); a successful finish puts the frame's future in the
\* slot, a failed finish returns the Device with the slot still empty.
C8_SlotTakenAndReplaced ==
    /\ frame.some => ~frame.device.before_frame.some
    /\ pif.some => ~pif.frame.device.before_frame.some
    /\ (last.op = "finish" /\ last.ret = "Ok")
          => (device.some /\ device.before_frame.some
              /\ Event("fence", last.n) \in device.before_frame.val)
    /\ (last.op = "finish" /\ last.ret = "Err")
          => (device.some /\ ~device.before_frame.some)
C8_Witness ==
    /\ last.op = "finish" /\ last.ret = "Err" /\ last.n = 2
    /\ 1 \in fences
    /\ device.some /\ ~device.before_frame.some

\* C9: a finish that returns an error returns the Device with Commands when
\* the submission failed (and then asked for no present) or with Flush when
\* the flush failed, and the error equals Flush(OutOfDate) exactly when the
\* flush failed with the out-of-date code.
C9_FinishErrors ==
    (last.op = "finish" /\ last.ret = "Err")
        => /\ device.some
           /\ last.err.kind \in {"Commands", "Flush"}
           /\ last.err.kind = "Commands" <=> last.fault = "execute"
           /\ last.err.kind = "Flush" <=> last.fault = "flush"
           /\ last.err.kind = "Commands" => (~last.present.asked /\ ~last.cb.queued)
           /\ last.err.kind = "Flush" => last.present.asked
           /\ last.err = Flush("OutOfDate")
                 <=> (last.fault = "flush" /\ last.code = "OutOfDate")
           /\ last.err.code = last.code
C9_Witness ==
    /\ last.op = "finish" /\ last.ret = "Err"
    /\ last.err = Flush("OutOfDate") /\ device.some

\* C10 as claimed: for every live Frame both getters return an image, and it
\* belongs to the swapchain generation the frame's index was acquired from.
C10_GettersMatchAcquire ==
    frame.some
        => /\ IsImage(get_color_image_for(sc, frame))
           /\ IsImage(get_depth_image_for(sc, frame))
           /\ get_color_image_for(sc, frame).gen = frame.swapchain.gen
           /\ get_depth_image_for(sc, frame).gen = frame.swapchain.gen

\* C11 as claimed: whatever resizes succeeded or failed, the swapchain holds
\* as many depth images as color images and they have the same dimensions.
C11_ImagesMatchDepths ==
    /\ sc.images.count = sc.depths.count
    /\ sc.images.dims = sc.depths.dims

\* C12: when resize(dims) has returned Ok the swapchain holds one depth
\* image per color image, all of them new and of dimensions dims, and the
\* default viewport (also the one in the dynamic state) has dimensions dims.
C12_ResizeOk ==
    (last.op \in ResizeOps /\ last.ret = "Ok")
        => /\ sc.depths.count = sc.images.count
           /\ sc.depths.dims = last.dims
           /\ sc.images.dims = last.dims
           /\ sc.depths.gen = sc.images.gen /\ sc.images.gen = sc.swapchain.gen
           /\ sc.default_viewport.dimensions = last.dims
           /\ sc.dynamic_state.viewports = Some(<<sc.default_viewport>>)
C12_Witness ==
    /\ last.op = "resize" /\ last.ret = "Ok" /\ last.dims = <<2, 1>>
    /\ sc.depths.dims = <<2, 1>> /\ sc.depths.gen = 2
    /\ sc.default_viewport.dimensions = <<2, 1>>

\* C13: a resize never panics and never touches the Device, a Frame or a
\* PassInFrame; when it fails, the error tells which step failed (Swapchain
\* for the recreation, Image for a depth image, UnsizedWindow for a window
\* without a size) and the Swapchain still holds a swapchain handle with
\* its images, so that resize can be called again and frames begun.
C13_ResizeFailureNotFatal ==
    /\ [][(IsCall("resize") \/ IsCall("resize_for_window"))
             => /\ ~panicked'
                /\ device' = device /\ frame' = frame /\ pif' = pif
                /\ sc'.swapchain.gen >= sc.swapchain.gen
                /\ sc'.images.gen = sc'.swapchain.gen
                /\ last'.ret \in {"Ok", "Err"}
                /\ last'.ret = "Err"
                      => /\ last'.err.kind \in {"Swapchain", "Image", "UnsizedWindow"}
                         /\ last'.err.kind = "Swapchain" <=> last'.fault = "recreate"
                         /\ last'.err.kind = "Image" <=> last'.fault = "image"
                         /\ last'.err.kind = "UnsizedWindow" <=> last'.fault = "unsized"
                         /\ last'.fault \in {"recreate", "unsized"}
                               => sc'.swapchain = sc.swapchain]_vars
    /\ [](last.op \in ResizeOps => ~panicked)
C13_Witness ==
    /\ last.retry = "resumed" /\ last.op = "finish" /\ last.ret = "Ok"
    /\ device.some /\ sc.swapchain.gen = 3 /\ last.present.gen = 3

IsDraw(cmd) == cmd.op \in {"Draw", "DrawIndexed"}

\* Every draw of a stream carries the viewport of its own pass, and follows
\* either the begin of that pass (with that pass's clear values) or another
\* draw of the same pass with the same viewport.
DrawsFollowPass(cmds) ==
    \A i \in 1 .. Len(cmds) :
        IsDraw(cmds[i])
            => /\ i > 1
               /\ cmds[i].viewport.some /\ Len(cmds[i].viewport.val) = 1
               /\ cmds[i].pass = "shadow"
                     => cmds[i].viewport.val[1] = Viewport(<<4, 4>>, <<0, 1>>)
               /\ cmds[i].pass = "albedo"
                     => cmds[i].viewport.val[1].dimensions \in DimSet
               /\ cmds[i - 1].op = "BeginRenderPass"
                     => cmds[i - 1].clears = PassClears(cmds[i].pass)
               /\ IsDraw(cmds[i - 1])
                     => /\ cmds[i - 1].pass = cmds[i].pass
                        /\ cmds[i - 1].viewport = cmds[i].viewport

\* C14: each call appends exactly its own command to the recorder, so the
\* commands stand in call order; begin_pass records the begin with the clear
\* values of its pass and installs the viewport it was given, every draw is
\* recorded with the viewport installed by the begin_pass of its own pass,
\* whatever the other pass used and whatever the swapchain's default is by
\* then.
C14_PassOrderAndViewport ==
    /\ [](/\ frame.some => DrawsFollowPass(frame.commands)
          /\ pif.some => DrawsFollowPass(pif.frame.commands)
          /\ last.cb.queued => DrawsFollowPass(last.cb.commands))
    /\ [][/\ (IsCall("begin_pass") /\ last'.ret = "Ok")
               => /\ pif'.frame.commands =
                        Append(frame.commands,
                               CmdBegin(get_color_image_for(sc, frame), PassClears(pif'.pass)))
                  /\ pif'.frame.dynamic_state.viewports = Some(<<PassViewport(pif'.pass)>>)
          /\ ((IsCall("draw") \/ IsCall("draw_indexed")) /\ last'.ret = "Ok")
               => /\ Len(pif'.frame.commands) = Len(pif.frame.commands) + 1
                  /\ SubSeq(pif'.frame.commands, 1, Len(pif.frame.commands)) = pif.frame.commands
                  /\ LET cmd == pif'.frame.commands[Len(pif'.frame.commands)]
                     IN /\ cmd.op = (IF last'.op = "draw" THEN "Draw" ELSE "DrawIndexed")
                        /\ cmd.pass = pif.pass
                        /\ cmd.viewport = pif.frame.dynamic_state.viewports
                  /\ pif'.frame.dynamic_state = pif.frame.dynamic_state
                  /\ pif'.pass = pif.pass
          /\ (IsCall("finish_pass") /\ last'.ret = "Ok")
               => frame'.commands = Append(pif.frame.commands, CmdEnd)
          /\ (IsCall("finish") /\ last'.ret = "Ok")
               => last'.cb.commands = frame.commands]_vars
C14_Witness ==
    /\ last.op = "finish" /\ last.ret = "Ok" /\ Len(last.cb.commands) = 6
    /\ last.cb.commands[1].clears = PassClears("shadow")
    /\ last.cb.commands[2].pass = "shadow"
    /\ last.cb.commands[2].viewport = Some(<<Viewport(<<4, 4>>, <<0, 1>>)>>)
    /\ last.cb.commands[3].op = "EndRenderPass"
    /\ last.cb.commands[4].clears = PassClears("albedo")
    /\ last.cb.commands[5].pass = "albedo"
    /\ last.cb.commands[5].viewport = Some(<<Viewport(<<1, 1>>, <<0, 1>>)>>)
    /\ sc.default_viewport # Viewport(<<1, 1>>, <<0, 1>>)

\* C15: finish_pass can be called on, and succeed for, every PassInFrame and
\* finish on every Frame, however many draws were recorded (none included);
\* a successful finish_pass closes the pass and a successful finish queues
\* exactly the recorded commands, a well-formed stream.
C15_ZeroDrawsSubmittable ==
    /\ [](/\ (pif.some /\ ~panicked)
               => ENABLED (PassFinishPass /\ last'.ret = "Ok")
          /\ (frame.some /\ ~panicked)
               => ENABLED (FrameFinish /\ last'.ret = "Ok"))
    /\ [][/\ (IsCall("finish_pass") /\ last'.ret = "Ok")
               => (frame'.some /\ Shape(frame'.commands) = "out")
          /\ (IsCall("finish") /\ last'.ret = "Ok")
               => /\ last'.cb = [queued |-> TRUE, commands |-> frame.commands]
                  /\ Shape(last'.cb.commands) = "out"
                  /\ device'.some]_vars
C15_Witness ==
    /\ last.op = "finish" /\ last.ret = "Ok" /\ last.cb.queued
    /\ Len(last.cb.commands) = 2
    /\ last.cb.commands[1].op = "BeginRenderPass"
    /\ last.cb.commands[2].op = "EndRenderPass"

\* Frame n was queued behind the submission, present and fence of frame m.
ChainedAfter(n, m) ==
    /\ <<Event("submit", m), Event("submit", n)>> \in order
    /\ <<Event("present", m), Event("submit", n)>> \in order
    /\ <<Event("fence", m), Event("submit", n)>> \in order

\* C16: of two consecutive frames that were both queued, the later one's
\* command buffer is ordered after the earlier one's submission and present
\* unless the earlier frame had already completed when the later one began;
\* begin and finish are possible whether or not the previous frame has
\* completed, and no call completes GPU work: begin carries the unfinished
\* work of the previous frame along in the Frame's future instead.
C16_ChainedNotAwaited ==
    /\ [](/\ \A n \in fences :
                (n - 1) \in fences => (ChainedAfter(n, n - 1) \/ (n - 1) \in signaled)
          /\ (device.some /\ ~panicked /\ frameNo < lim.frames)
                => ENABLED (FrameBegin /\ last'.ret = "Ok")
          /\ (frame.some /\ ~panicked)
                => ENABLED (FrameFinish /\ last'.ret = "Ok"))
    /\ [][/\ last' # last => signaled' = signaled
          /\ (last'.op = "begin" /\ last' # last /\ last'.ret = "Ok"
                 /\ frameNo \in fences /\ frameNo \notin signaled)
               => {Event("submit", frameNo), Event("present", frameNo),
                   Event("fence", frameNo)} \subseteq frame'.time
          /\ (last'.op = "finish" /\ last' # last /\ last'.ret = "Ok"
                 /\ Event("submit", frame.n - 1) \in frame.time)
               => /\ <<Event("submit", frame.n - 1), Event("submit", frame.n)>> \in order'
                  /\ <<Event("present", frame.n - 1), Event("submit", frame.n)>> \in order'
                  /\ (frame.n - 1) \notin signaled
                        => <<Event("submit", frame.n), Event("submit", frame.n - 1)>>
                              \notin order']_vars
C16_Witness ==
    /\ last.op = "finish" /\ last.ret = "Ok" /\ last.n = 2
    /\ fences = {1, 2} /\ signaled = {}
    /\ ChainedAfter(2, 1)

\* C17 as claimed: after a Frame or PassInFrame was dropped nothing of it is
\* queued, and apart from the acquired image nothing is lost: the caller
\* can go on with the Device.
C17_Original ==
    last.op = "drop"
        => /\ last.n \notin fences
           /\ device.some

\* C17 as amended: dropping a Frame or PassInFrame queues nothing, then or
\* later: no command buffer, present or fence of that frame ever enters the
\* GPU's order (only frames whose finish returned Ok do).  Lost with it are
\* the acquired image and the Device the Frame owns, pending future
\* included: the caller holds no Device afterwards.
C17_DropAbandons ==
    /\ [](/\ \A e \in order : e[2][2] \in fences
          /\ \A n \in fences : n <= frameNo
          /\ last.op = "drop"
                => /\ last.n = frameNo /\ last.n \notin fences
                   /\ ~last.cb.queued /\ ~last.present.asked
                   /\ ~device.some /\ ~frame.some /\ ~pif.some)
    /\ [][IsCall("drop")
             => /\ frame.some \/ pif.some
                /\ order' = order /\ fences' = fences
                /\ device' = NoDevice /\ frame' = NoFrame /\ pif' = NoPass]_vars
    /\ [][(last.op = "drop" /\ last.n \notin fences) => last.n \notin fences']_vars
C17_Witness ==
    /\ last.op = "drop" /\ last.n = 2 /\ fences = {1}
    /\ ~device.some /\ ~frame.some /\ ~pif.some

\* C19: for the description handed to render-pass creation, with N
\* attachments: when the depth attachment is at index k the subpass's color
\* list holds exactly the indices 0..N-1 other than k, each once, in
\* increasing order, all in the color layout, and the depth-stencil
\* reference is k; without a depth attachment the color list is 0..N-1 in
\* order and there is no depth-stencil reference.
C19_SubpassColorIndices ==
    pcall.subpass.some
        => LET N == ATTACHMENT_COUNT(pcall.desc)
               depth == pcall.desc.depth_attachment
               colors == pcall.subpass.val.color_attachments
               expected == IF depth.some THEN (0 .. (N - 1)) \ {depth.val} ELSE 0 .. (N - 1)
           IN /\ depth.some => depth.val \in 0 .. (N - 1)
              /\ {colors[i][1] : i \in 1 .. Len(colors)} = expected
              /\ Len(colors) = Cardinality(expected)
              /\ \A i, j \in 1 .. Len(colors) : i < j => colors[i][1] < colors[j][1]
              /\ \A i \in 1 .. Len(colors) : colors[i][2] = "ColorAttachmentOptimal"
              /\ pcall.subpass.val.depth_stencil =
                    (IF depth.some THEN Some(<<depth.val, "DepthStencilAttachmentOptimal">>)
                     ELSE None)
              /\ subpass_desc(pcall.desc, 1) = None
C19_Witness ==
    /\ pcall.op = "build" /\ pcall.subpass.some
    /\ ATTACHMENT_COUNT(pcall.desc) = 4
    /\ pcall.desc.depth_attachment = Some(1)
    /\ pcall.subpass.val.color_attachments =
          << <<0, "ColorAttachmentOptimal">>, <<2, "ColorAttachmentOptimal">>,
             <<3, "ColorAttachmentOptimal">> >>
    /\ pcall.subpass.val.depth_stencil = Some(<<1, "DepthStencilAttachmentOptimal">>)

\* C20: add_depth_attachment with a depth format on a builder that already
\* has a depth attachment returns Err(DepthAttachmentAlreadyExists(k)), k
\* being the index at which the one attachment in the depth-stencil layout
\* was added, wherever it stands among the color attachments; nothing is
\* added and no builder is handed back.
C20_SecondDepthFails ==
    [][(/\ pb.some /\ pb.depth_attachment.some
        /\ <<pb, pcall>>' # <<pb, pcall>>
        /\ pcall'.op = "add_depth_attachment" /\ is_depth(pcall'.format))
          => /\ pcall'.ret = "Err"
             /\ pcall'.err.kind = "DepthAttachmentAlreadyExists"
             /\ pcall'.err.index \in 0 .. (Len(pb.attachments) - 1)
             /\ pb.attachments[pcall'.err.index + 1].initial_layout
                   = "DepthStencilAttachmentOptimal"
             /\ \A i \in 1 .. Len(pb.attachments) :
                   i # pcall'.err.index + 1
                      => pb.attachments[i].initial_layout = "ColorAttachmentOptimal"
             /\ pb' = NoBuilder]_vars
C20_Witness ==
    /\ pcall.op = "add_depth_attachment" /\ pcall.ret = "Err"
    /\ pcall.err = DepthAttachmentAlreadyExists(1)
    /\ Len(pcall.on) = 3
    /\ pcall.on[1].initial_layout = "ColorAttachmentOptimal"
    /\ pcall.on[2].initial_layout = "DepthStencilAttachmentOptimal"
    /\ pcall.on[3].initial_layout = "ColorAttachmentOptimal"

\* C18 as claimed: every begin that was called returns, with a Frame or with
\* the Device and an acquire error.
C18_BeginReturns == acquiring.some ~> ~acquiring.some

\* A step of the builder API that is the call `op`.
IsPassCall(op) == <<pb, pcall>>' # <<pb, pcall>> /\ pcall'.op = op

\* C21: add_depth_attachment with a format that is not a depth format
\* returns Err(InvalidFormat) whether or not the builder has a depth
\* attachment, and adds nothing: no attachment, no depth index.
C21_InvalidFormatFirst ==
    [][(IsPassCall("add_depth_attachment") /\ ~is_depth(pcall'.format))
          => /\ pcall'.ret = "Err"
             /\ pcall'.err = InvalidFormat
             /\ pcall'.on = pb.attachments
             /\ pb' = NoBuilder]_vars
C21_Witness ==
    /\ pcall.op = "add_depth_attachment" /\ pcall.ret = "Err"
    /\ pcall.err = InvalidFormat /\ ~is_depth(pcall.format)
    /\ Len(pcall.on) = 2
    /\ pcall.on[1].initial_layout = "DepthStencilAttachmentOptimal"

C23_BuildErrors ==
    [][IsPassCall("build")
          => /\ pcall'.ret \in {"Ok", "Err"}
             /\ pcall'.ret = "Err" =>
                   pcall'.err.kind \in {"RenderPassCreation", "GraphicsPipelineCreation",
                                        "NoAttachments"}
             /\ Len(pb.attachments) = 0 =>
                   /\ pcall'.ret = "Err"
                   /\ pcall'.err = BuildError("NoAttachments")
                   /\ pcall'.attempted = <<>>
             /\ pcall'.err = BuildError("NoAttachments") => Len(pb.attachments) = 0]_vars
C23_Witness ==
    /\ pcall.op = "build" /\ pcall.ret = "Err"
    /\ pcall.err = BuildError("NoAttachments") /\ pcall.attempted = <<>>

\* The fields of the builder a configuration call is specified to set.
ConfigOps ==
    {"primitive_topology", "cull_mode", "front_face", "depth_write",
     "depth_test_op", "basic_depth_test", "inverse_depth_test"}
Configured(b, op, arg) ==
    [b EXCEPT
       !.primitive_topology = IF op = "primitive_topology" THEN arg ELSE @,
       !.rasterization =
           [cull_mode |-> IF op = "cull_mode" THEN arg ELSE @.cull_mode,
            front_face |-> IF op = "front_face" THEN arg ELSE @.front_face],
       !.depth_stencil =
           [depth_write |->
               IF op = "depth_write" THEN arg = "true"
               ELSE IF op \in {"basic_depth_test", "inverse_depth_test"} THEN TRUE
               ELSE @.depth_write,
            depth_compare |->
               IF op = "depth_test_op" THEN arg
               ELSE IF op = "basic_depth_test" THEN "Less"
               ELSE IF op = "inverse_depth_test" THEN "Greater"
               ELSE @.depth_compare]]

\* C24: a new builder has no culling, counter-clockwise front faces,
\* triangle lists, depth write off and compare Always; every configuration
\* call sets its own field to its argument and keeps all others, where
\* basic_depth_test sets depth write on with Less and inverse_depth_test
\* depth write on with Greater.
C24_LastValueOrDefault ==
    /\ [](pcall.op = "start" =>
            /\ pb.rasterization = [cull_mode |-> "None", front_face |-> "CounterClockwise"]
            /\ pb.primitive_topology = "TriangleList"
            /\ pb.depth_stencil = [depth_write |-> FALSE, depth_compare |-> "Always"])
    /\ [][(<<pb, pcall>>' # <<pb, pcall>> /\ pcall'.op \in ConfigOps)
            => pb' = Configured(pb, pcall'.op, pcall'.arg)]_vars
C24_Witness ==
    /\ pcall.op = "basic_depth_test"
    /\ pb.depth_stencil = [depth_write |-> TRUE, depth_compare |-> "Less"]
    /\ pb.rasterization = [cull_mode |-> "Back", front_face |-> "Clockwise"]
    /\ pb.primitive_topology = "LineList"

\* C25: Device creation that got its logical device ends with a graphics,
\* a transfer and a compute queue for one, two or three created queues:
\* each role holds one of the created queues, one queue serves all three
\* roles, and three queues go to graphics, transfer, compute in this order.
C25_QueuesAssigned ==
    (creation.op = "Device::create" /\ creation.done /\ creation.ret # "Logical")
       => /\ creation.ret = "Ok"
          /\ Len(creation.queues) \in 1 .. 3
          /\ \A role \in {"graphics", "transfer", "compute"} :
                \E i \in 1 .. Len(creation.queues) : creation.roles[role] = creation.queues[i]
          /\ Len(creation.queues) = 3 =>
                creation.roles = [graphics |-> creation.queues[1],
                                  transfer |-> creation.queues[2],
                                  compute |-> creation.queues[3]]

\* C26: create_swapchain that got the surface's capabilities takes the first
\* of the supported formats when there is one, and fails with
\* NoCompatibleFormatFound exactly when there is none.
C26_FirstFormat ==
    (creation.op = "create_swapchain" /\ creation.done /\ creation.err # "SurfaceCapabilities")
       => /\ Len(creation.supported_formats) > 0 =>
                /\ creation.format = creation.supported_formats[1]
                /\ creation.err # "NoCompatibleFormatFound"
          /\ Len(creation.supported_formats) = 0 =>
                /\ creation.ret = "Err"
                /\ creation.err = "NoCompatibleFormatFound"
C26_Witness ==
    /\ creation.op = "create_swapchain" /\ creation.done /\ creation.ret = "Ok"
    /\ Len(creation.supported_formats) = 3
    /\ creation.supported_formats[1] # creation.supported_formats[2]
    /\ creation.supported_formats[1] # creation.supported_formats[3]
    /\ creation.format = creation.supported_formats[1]

\* C27 as claimed: a Swapchain::resize that returns an error leaves the
\* Swapchain as it was: handle, color images, depth images, default
\* viewport and the viewport of the dynamic state.
C27_FailedResizeKeeps ==
    [][(IsCall("resize") /\ last'.ret = "Err") => sc' = sc]_vars

\* The open frame, whether the caller holds it as a Frame or inside a
\* PassInFrame.
OpenFrame == IF pif.some THEN pif.frame ELSE frame

\* C28: the Frame made by begin keeps the handle of the Swapchain it
\* acquired its index from; handle and index stay what they are while the
\* frame is open, whatever resize does to the Swapchain; and finish asks
\* for the present of that index on that handle.
C28_PresentsWhatWasAcquired ==
    /\ [][(IsCall("begin") /\ last'.ret = "Ok")
            => (frame'.swapchain = sc.swapchain /\ frame'.n = last'.n)]_vars
    /\ [][(OpenFrame.some /\ OpenFrame'.some)
            => /\ OpenFrame'.swapchain = OpenFrame.swapchain
               /\ OpenFrame'.swapchain_index = OpenFrame.swapchain_index
               /\ OpenFrame'.n = OpenFrame.n]_vars
    /\ [][(IsCall("finish") /\ last'.present.asked)
            => /\ last'.present.gen = frame.swapchain.gen
               /\ last'.present.index = frame.swapchain_index
               /\ last'.n = frame.n]_vars
C28_Witness ==
    /\ last.op = "finish" /\ last.ret = "Ok" /\ last.present.asked
    /\ last.present.gen = 1 /\ sc.swapchain.gen = 2
    /\ sc.swapchain.dims # <<1, 1>>

\* The places that hold a future at this moment: the pending slot of the
\* Device the caller holds, the open frame's own future, and the pending
\* slot of the Device inside the open frame.
FutureHolders ==
    (IF device.some /\ device.before_frame.some THEN {"device"} ELSE {})
      \cup (IF OpenFrame.some THEN {"frame"} ELSE {})
      \cup (IF OpenFrame.some /\ OpenFrame.device.before_frame.some
            THEN {"device in frame"} ELSE {})

PassOps == {"begin_pass", "draw", "draw_indexed", "finish_pass"}

\* C30: a begin_pass, draw, draw_indexed or finish_pass that returns leaves
\* the open frame as it was but for its command recorder, which grows by the
\* commands of the call, and, for begin_pass only, its viewport; the Device
\* in the frame, the acquired index, the captured swapchain handle, the
\* frame's future and, between begin_pass and finish_pass, the pass in use
\* are the same, and nothing outside the frame changes.
C30_PassOpsTouchRecorderOnly ==
    [][(last'.op \in PassOps /\ last'.ret = "Ok" /\ <<frame, pif>>' # <<frame, pif>>)
          => /\ OpenFrame.some /\ OpenFrame'.some
             /\ OpenFrame' = [OpenFrame EXCEPT
                     !.commands = OpenFrame'.commands,
                     !.dynamic_state = IF last'.op = "begin_pass"
                                       THEN OpenFrame'.dynamic_state ELSE @]
             /\ Len(OpenFrame'.commands) > Len(OpenFrame.commands)
             /\ SubSeq(OpenFrame'.commands, 1, Len(OpenFrame.commands)) = OpenFrame.commands
             /\ (pif.some /\ pif'.some) => pif'.pass = pif.pass
             /\ UNCHANGED <<device, sc, order, signaled, fences, frameNo>>]_vars
C30_Witness ==
    /\ last.op = "finish_pass" /\ last.ret = "Ok" /\ frame.some
    /\ Len(frame.commands) = 6
    /\ frame.time = {Event("acquire", 1)}
    /\ frame.swapchain = sc.swapchain
    /\ ~frame.device.before_frame.some

\* C31 as claimed: whatever calls the Swapchain has seen, failed resizes
\* included, the first viewport of its dynamic state is its default
\* viewport, the viewport has the dimensions of the depth images the
\* Swapchain holds, and its depth range is 1..0 with inverse depth and 0..1
\* without.
C31_ViewportMatchesDepths ==
    /\ sc.dynamic_state.viewports.some
    /\ sc.dynamic_state.viewports.val[1] = sc.default_viewport
    /\ sc.default_viewport.dimensions = sc.depths.dims
    /\ sc.default_viewport.depth_range = DepthRange(sc.inverse_depth)

\* The places of the attachments of `b` declared with the depth-stencil layout.
DepthPlaces(b) ==
    {i \in 1 .. Len(b.attachments) :
        b.attachments[i].initial_layout = "DepthStencilAttachmentOptimal"}

\* C32: in a builder the depth index, when there is one, is below the
\* number of attachments and is the place of the only attachment with the
\* depth-stencil layout; without a depth index no attachment has that
\* layout; all other attachments have the color layout.  Every add call
\* that returns Ok appends one attachment behind those declared before, and
\* build describes the render pass with the attachments in that order.
C32_DepthIndexAndOrder ==
    /\ [](pb.some =>
            /\ pb.depth_attachment.some =>
                  /\ pb.depth_attachment.val < Len(pb.attachments)
                  /\ DepthPlaces(pb) = {pb.depth_attachment.val + 1}
            /\ ~pb.depth_attachment.some => DepthPlaces(pb) = {}
            /\ \A i \in (1 .. Len(pb.attachments)) \ DepthPlaces(pb) :
                  pb.attachments[i].initial_layout = "ColorAttachmentOptimal")
    /\ [][((IsPassCall("add_image_attachment") \/ IsPassCall("add_depth_attachment"))
              /\ pcall'.ret = "Ok")
            => /\ Len(pb'.attachments) = Len(pb.attachments) + 1
               /\ SubSeq(pb'.attachments, 1, Len(pb.attachments)) = pb.attachments
               /\ pb'.attachments[Len(pb'.attachments)].format = pcall'.format]_vars
    /\ [][(IsPassCall("build") /\ pcall'.attempted # <<>>)
            => /\ pcall'.desc.attachments = pb.attachments
               /\ pcall'.desc.depth_attachment = pb.depth_attachment]_vars
C32_Witness ==
    /\ pcall.op = "build" /\ pcall.ret = "Ok"
    /\ Len(pcall.desc.attachments) = 3
    /\ pcall.desc.depth_attachment = Some(1)
    /\ pcall.desc.attachments[2].initial_layout = "DepthStencilAttachmentOptimal"
    /\ pcall.desc.attachments[1].format # pcall.desc.attachments[3].format

SetterOps == {"vertex_input", "vertex_shader", "fragment_shader"}

\* C33: vertex_input, vertex_shader and fragment_shader set the field they
\* name and hand every other field of the builder on as it was: topology,
\* rasterization, depth-stencil, sample count, attachments, depth index and
\* the two other type-changing fields.  What build hands to the pipeline
\* builder and to the render pass are the builder's fields, whatever the
\* order of the calls that set them.
C33_SettersCarryOver ==
    /\ [][(<<pb, pcall>>' # <<pb, pcall>> /\ pcall'.op \in SetterOps)
            => /\ pb' = [pb EXCEPT
                     !.vertex_input = IF pcall'.op = "vertex_input" THEN pb'.vertex_input ELSE @,
                     !.vertex_shader = IF pcall'.op = "vertex_shader" THEN pb'.vertex_shader ELSE @,
                     !.fragment_shader =
                         IF pcall'.op = "fragment_shader" THEN pb'.fragment_shader ELSE @]
               /\ pb'[pcall'.op].some]_vars
    /\ [][(IsPassCall("build") /\ pcall'.pipeline # NoPipeline)
            => /\ pcall'.pipeline.primitive_topology = pb.primitive_topology
               /\ pcall'.pipeline.rasterization = pb.rasterization
               /\ pcall'.pipeline.depth_stencil = pb.depth_stencil
               /\ pcall'.desc.attachments = pb.attachments]_vars
C33_Witness ==
    /\ pcall.op = "vertex_shader" /\ pb.some
    /\ pb.rasterization.cull_mode = "Back"
    /\ pb.depth_stencil.depth_write
    /\ pb.primitive_topology = "LineList"
    /\ pb.depth_attachment = Some(0)
    /\ pb.vertex_input.some /\ pb.fragment_shader.some

\* C34 as claimed: whatever was pushed and popped, the depth index of a
\* description names an attachment the description holds, and the depth
\* attachment subpass_desc names is below the attachment count.
C34_DepthIndexInCollection ==
    creation.op = "description"
       => LET d == creation.desc
          IN /\ d.depth_attachment.some => d.depth_attachment.val < ATTACHMENT_COUNT(d)
             /\ subpass_desc(d, 0).val.depth_stencil.some
                   => subpass_desc(d, 0).val.depth_stencil.val[1] < ATTACHMENT_COUNT(d)

\* C35 as claimed: attachment_desc(i) is the i-th attachment in the order
\* of declaration for i below the count and None for i at or above it, and
\* the index it computes never goes below zero.
C35_AttachmentDescByOrder ==
    (creation.op = "description" /\ creation.call = "attachment_desc")
       => LET d == creation.desc
          IN /\ ~creation.underflow
             /\ creation.num < ATTACHMENT_COUNT(d)
                   => /\ creation.ret = "Some"
                      /\ creation.val = d.attachments[creation.num + 1].desc
             /\ creation.num >= ATTACHMENT_COUNT(d) => creation.ret = "None"

\* A step that ran the redraw body of one of the examples.
IsRedraw == creation' # creation /\ creation'.handler \in {"RedrawEventsCleared", "iteration"}

\* C36: in the examples' loops a redraw that finds the recreate flag set
\* begins a frame only after its Swapchain.resize returned Ok; when the
\* resize fails with a swapchain error the redraw ends with no frame begun,
\* the flag still set and the loop running, so the next redraw resizes
\* again; and every redraw starts with a Device in the Device slot.
C36_ResizeBeforeFrame ==
    /\ []((creation.op = "loop" /\ creation.running) => creation.device)
    /\ [][(creation.op = "loop" /\ IsRedraw)
            => /\ creation.device
               /\ (creation.recreate_swapchain /\ creation'.begun)
                     => creation'.resize = "Ok"
               /\ (creation.recreate_swapchain /\ creation'.resize = "Swapchain")
                     => /\ ~creation'.begun
                        /\ creation'.recreate_swapchain
                        /\ creation'.running
                        /\ creation'.device
                        /\ creation'.frame_count = creation.frame_count
               /\ (~creation.recreate_swapchain) => creation'.resize = "none"]_vars
\* A redraw after a drawn frame found the flag set, its resize failed with
\* a swapchain error and it was skipped.
C36_Witness ==
    /\ creation.op = "loop"
    /\ creation.handler \in {"RedrawEventsCleared", "iteration"}
    /\ creation.resize = "Swapchain"
    /\ ~creation.begun
    /\ creation.frame_count = 1
    /\ creation.recreate_swapchain
    /\ creation.running

\* The pass holds the framebuffers of the Device's swapchain images, in order.
FramebuffersMatch(t) ==
    /\ Len(t.pass.framebuffers) = Len(t.device.swapchain_images)
    /\ \A i \in 1 .. Len(t.pass.framebuffers) :
          t.pass.framebuffers[i].image = [gen |-> t.device.swapchain, image |-> i - 1]

UsableAsDepth(format) == is_depth_and_or_stencil(ty(format))

\* C38 as claimed: ShadowPass::new returns IncorrectFormat exactly when the
\* format is not a depth or stencil format, and for a depth or stencil
\* format an Ok comes with the depth-only render pass.
C38_IncorrectFormatIffNotDepth ==
    (creation.op = "ShadowPass::new" /\ creation.done)
       => /\ (creation.err = "IncorrectFormat") <=> ~UsableAsDepth(creation.format)
          /\ creation.ret = "Ok"
                => /\ UsableAsDepth(creation.format)
                   /\ creation.render_pass = ShadowRenderPass(creation.format)

\* How many of the requests go to the family `id`.
RequestsFrom(requests, id) ==
    Cardinality({j \in 1 .. Len(requests) : requests[j].family.id = id})

\* C39: for the queue families of every validated physical device,
\* select_queue_families asks for one, two or three queues, the queue of the
\* graphics family first and at the highest priority, and asks no family
\* for more queues than the family has.
C39_QueueRequestsFit ==
    (creation.op = "Device::create" /\ creation.done)
       => LET families == creation.physical
              requests == creation.requests
              first == families[1]
          IN /\ Len(requests) \in 1 .. 3
             /\ requests[1].family =
                   BestFamilies([graphics |-> first, transfer |-> first, compute |-> first],
                                families, 2).graphics
             /\ \A j \in 2 .. Len(requests) : requests[j].priority < requests[1].priority
             /\ \A i \in 1 .. Len(families) :
                   RequestsFrom(requests, families[i].id) <= families[i].queues_count
\* Three queues were asked for, two of them from the graphics family.
C39_Witness ==
    /\ creation.op = "Device::create"
    /\ creation.done
    /\ Len(creation.requests) = 3
    /\ RequestsFrom(creation.requests, creation.requests[1].family.id) = 2

====
